---- MODULE Spec2Model ----
(***************************************************************************)
(* Model of metaspn_store.store.FileSystemStore: an append-only, day-      *)
(* partitioned JSONL store for signal and emission envelopes, with an      *)
(* in-memory dedup index, range scans and replay checkpoints.              *)
(*                                                                         *)
(* Time is discrete: an instant is an integer number of ticks, a day holds *)
(* TicksPerDay ticks.  A datetime is a wall-clock reading plus a zone      *)
(* ("naive" = no tzinfo, "utc", "plus" = a fixed offset of one tick east). *)
(* A partition path <dir>/<date>.jsonl is modelled by its day number; an   *)
(* Optional[Path] is the empty sequence (None) or a one-element sequence.  *)
(***************************************************************************)
EXTENDS Integers, Sequences, FiniteSets, TLC

\* ------------------------------------------------------------- bounds
TicksPerDay == 2
MaxWall == 1
MaxBatch == 2
MaxLines == 2
MaxDelivered == 3
MaxChunk == 3
MaxLimit == 2
MaxCandidates == 3
MaxOutcomes == 3
MaxStaged == 3
MaxRaced == 3
MaxDamaged == 3
MaxInterrupted == 2
MaxLazy == 3
MaxSnapshots == 1

\* ------------------------------------------------------------- time
Zones == {"naive", "utc", "plus"}

\* utcoffset() of an aware datetime, in ticks.
UtcOffset(tz) == IF tz = "plus" THEN 1 ELSE 0

\* _ensure_utc: a naive value is stamped UTC as it is, an aware one is converted.
EnsureUtc(value) ==
    IF value.tz = "naive"
    THEN [wall |-> value.wall, tz |-> "utc"]
    ELSE [wall |-> value.wall - UtcOffset(value.tz), tz |-> "utc"]

\* datetime.date(): the calendar day of the wall-clock reading.
DateOf(value) == value.wall \div TicksPerDay

\* The instant a datetime denotes: aware datetimes compare by their UTC reading.
Instant(value) == EnsureUtc(value).wall

Stamps == [wall : 0..MaxWall, tz : Zones]

\* ------------------------------------------------------------- envelopes
SignalIds == {"s1", "s2"}
EmissionIds == {"e1"}
Policies == {"ignore", "return_existing", "raise", "overwrite"}
EntityRefs == {"ent-1"}

\* JSON values, tagged with the Python type json.loads gives them.  A number
\* is held in hundredths (0.7 is 70); of a text that spells no datetime only
\* its type matters.
Number(n) == [type |-> "float", value |-> n]
\* JSON true is the Python int 1: float(True) is 1.0, a hundred hundredths.
Bool(b) == [type |-> "bool", value |-> IF b THEN 100 ELSE 0]
Text == [type |-> "str", value |-> 0]
Null == [type |-> "NoneType", value |-> 0]
\* A text that spells a datetime in ISO-8601: the wall-clock reading and the
\* offset suffix, "Z" included.
IsoText(wall, offset) == [type |-> "str", value |-> wall, offset |-> offset]
Dict(items) == [type |-> "dict", value |-> items]
List == [type |-> "list", value |-> [item |-> Number(0)]]

\* Attempt 1 and attempt 2 of a producer differ in payload, source and refs.
SignalVariant(n) ==
    IF n = 1
    THEN [source |-> "ingestor.a", payload_type |-> "Synthetic",
          payload |-> Dict([attempt |-> Number(1)]), entity_refs |-> <<"ent-1">>]
    ELSE [source |-> "ingestor.b", payload_type |-> "Synthetic",
          payload |-> Dict([attempt |-> Number(2)]), entity_refs |-> <<>>]

SignalEnvelope(id, ts, n, sv) ==
    [signal_id |-> id, timestamp |-> ts, source |-> SignalVariant(n).source,
     payload_type |-> SignalVariant(n).payload_type,
     payload |-> SignalVariant(n).payload,
     entity_refs |-> SignalVariant(n).entity_refs, schema_version |-> sv]

EmissionEnvelope(id, ts, n, sv) ==
    [emission_id |-> id, timestamp |-> ts,
     emission_type |-> IF n = 1 THEN "ScoresComputed" ELSE "OutcomeSuccess",
     payload |-> Dict([attempt |-> Number(n)]), caused_by |-> "s1",
     entity_refs |-> IF n = 1 THEN <<"ent-1">> ELSE <<>>, schema_version |-> sv]

\* A producer's attempt number grows with the wall-clock reading it stamps.
ValidSignals == {SignalEnvelope(id, ts, ts.wall + 1, "0.1") : id \in SignalIds, ts \in Stamps}
InvalidSignals ==
    {SignalEnvelope("", [wall |-> 0, tz |-> "utc"], 1, "0.1"),
     SignalEnvelope("s1", [wall |-> 0, tz |-> "utc"], 1, "")}
Signals == ValidSignals \cup InvalidSignals

ValidEmissions == {EmissionEnvelope(id, ts, ts.wall + 1, "0.1") : id \in EmissionIds, ts \in Stamps}
InvalidEmissions ==
    {EmissionEnvelope("", [wall |-> 0, tz |-> "utc"], 1, "0.1"),
     EmissionEnvelope("e1", [wall |-> 0, tz |-> "utc"], 1, "")}
Emissions == ValidEmissions \cup InvalidEmissions

\* ------------------------------------------------------------- wire format
\* to_dict / json.dumps: the timestamp is written as ISO-8601 text, which keeps
\* the wall-clock reading and spells the zone as an offset suffix.
IsoSuffix(tz) == CASE tz = "naive" -> "" [] tz = "utc" -> "+00:00" [] OTHER -> "+12:00"
ZoneOfSuffix(s) == CASE s = "" -> "naive" [] s \in {"+00:00", "Z"} -> "utc" [] OTHER -> "plus"

IsoFormat(value) == [wall |-> value.wall, offset |-> IsoSuffix(value.tz)]
FromIsoFormat(text) == [wall |-> text.wall, tz |-> ZoneOfSuffix(text.offset)]

ToDict(envelope) == [envelope EXCEPT !.timestamp = IsoFormat(@)]
FromDict(record) == [record EXCEPT !.timestamp = FromIsoFormat(@)]

\* ------------------------------------------------------------- files
NoFiles == [d \in {} |-> <<>>]
NoMap == [k \in {} |-> 0]
NoIndex == [built |-> FALSE, map |-> NoMap]

Exists(files, day) == day \in DOMAIN files

\* A physical line of a partition file is the JSON text of one record, or text
\* that is not one whole line of the store: an empty line, one text that is
\* not JSON, several texts run together on one line, or text at the end of
\* the file whose newline is still missing (one JSON text, or several texts
\* run together).  A line of several texts keeps them, in the order written,
\* each the JSON text of a record or CorruptLine for a text that is not JSON:
\* a handle that was opened before the later ones were written reads them from
\* its own place in the line.
BlankLine == [raw |-> "blank"]
CorruptLine == [raw |-> "corrupt"]
RunOnLine(texts) == [raw |-> "run-on", texts |-> texts]
TornLine(texts) == [raw |-> "torn", texts |-> texts]
OpenLine(record) == [raw |-> "open", record |-> record]
NoText == [raw |-> "none"]
IsRaw(line) == "raw" \in DOMAIN line
IsOpen(line) == IsRaw(line) /\ line.raw = "open"
Terminated(line) == ~(IsRaw(line) /\ line.raw \in {"open", "torn"})
Unterminated(lines) == lines # <<>> /\ ~Terminated(lines[Len(lines)])

\* The texts a line is made of.
Texts(line) ==
    IF ~IsRaw(line) THEN <<line>>
    ELSE IF IsOpen(line) THEN <<line.record>>
    ELSE IF line.raw \in {"run-on", "torn"} THEN line.texts
    ELSE IF line.raw = "corrupt" THEN <<line>>
    ELSE <<>>

\* The line these texts make, with its newline or without; NoText for no text
\* and no newline.
LineOf(texts, terminated) ==
    IF texts = <<>> THEN (IF terminated THEN BlankLine ELSE NoText)
    ELSE IF Len(texts) = 1 /\ ~IsRaw(texts[1])
    THEN (IF terminated THEN texts[1] ELSE OpenLine(texts[1]))
    ELSE IF Len(texts) = 1 /\ terminated THEN CorruptLine
    ELSE IF terminated THEN RunOnLine(texts) ELSE TornLine(texts)

\* Mutant: a line that is not JSON is passed over like an empty one.
IsBlankOrCorrupt(line) == IsRaw(line) /\ line.raw # "open"

\* not line.strip()
IsBlank(line) == IsRaw(line) /\ line.raw = "blank"

\* json.loads raising JSONDecodeError, as a value apart from every record and
\* every index.
JSONDecodeError == [raises |-> "JSONDecodeError"]

\* json.loads(line)
JsonLoads(line) ==
    IF ~IsRaw(line) THEN line
    ELSE IF IsOpen(line) THEN line.record
    ELSE JSONDecodeError

\* Mutants of the append: the line lands before the file's content; the file is
\* opened for writing and loses its content.
AppendLineAtFront(files, day, line) ==
    IF Exists(files, day)
    THEN [files EXCEPT ![day] = <<line>> \o @]
    ELSE files @@ (day :> <<line>>)

AppendLineTruncating(files, day, line) ==
    IF Exists(files, day)
    THEN [files EXCEPT ![day] = <<line>>]
    ELSE files @@ (day :> <<line>>)

\* Mutant: the new line takes the place of the file's last line.
AppendLineReplacingLast(files, day, line) ==
    IF Exists(files, day)
    THEN [files EXCEPT ![day] = SubSeq(@, 1, Len(@) - 1) \o <<line>>]
    ELSE files @@ (day :> <<line>>)

\* destination.open("a"): the file is created when it is missing.
OpenAppend(files, day) == IF Exists(files, day) THEN files ELSE files @@ (day :> <<>>)

\* handle.write(json.dumps(...)): the text lands after the last byte of the
\* file, so it continues a last line whose newline is missing.
WriteJson(lines, record) ==
    IF Unterminated(lines)
    THEN SubSeq(lines, 1, Len(lines) - 1) \o
            <<TornLine(Append(Texts(lines[Len(lines)]), record))>>
    ELSE Append(lines, OpenLine(record))

\* handle.write("\n"): the last line is complete.
WriteNewline(lines) ==
    IF ~Unterminated(lines) THEN Append(lines, BlankLine)
    ELSE SubSeq(lines, 1, Len(lines) - 1) \o <<LineOf(Texts(lines[Len(lines)]), TRUE)>>

\* Another program appends a line to the file: its text lands after the last
\* byte, so it continues a last line whose newline is missing.
WriteForeign(lines, line) ==
    IF ~Unterminated(lines) THEN Append(lines, line)
    ELSE SubSeq(lines, 1, Len(lines) - 1) \o
            <<LineOf(Texts(lines[Len(lines)]) \o Texts(line), Terminated(line))>>

\* destination.open("a"); write(line); write("\n")
AppendLine(files, day, line) ==
    [OpenAppend(files, day) EXCEPT ![day] = WriteNewline(WriteJson(@, line))]

\* sorted(base_dir.glob("*.jsonl")): ISO date names sort chronologically.
RECURSIVE SortedSeq(_)
SortedSeq(S) ==
    IF S = {} THEN <<>>
    ELSE LET m == CHOOSE x \in S : \A y \in S : x <= y
         IN <<m>> \o SortedSeq(S \ {m})

SortedPartitions(files) == SortedSeq(DOMAIN files)

\* ------------------------------------------------------------- dedup index
\* _build_index, inner loop: the lines of one partition, first-seen id wins.
RECURSIVE IndexLines(_, _, _, _, _)
IndexLines(lines, i, partition, id_field, index) ==
    IF i > Len(lines) THEN index
    ELSE IF IsBlank(lines[i]) THEN IndexLines(lines, i + 1, partition, id_field, index)
    ELSE LET record == JsonLoads(lines[i])
         IN IF record = JSONDecodeError THEN JSONDecodeError
            ELSE IndexLines(lines, i + 1, partition, id_field,
                    IF record[id_field] \notin DOMAIN index
                    THEN index @@ (record[id_field] :> partition)
                    ELSE index)

\* _build_index, outer loop over the sorted partitions.
RECURSIVE IndexPartitions(_, _, _, _, _)
IndexPartitions(files, partitions, i, id_field, index) ==
    IF i > Len(partitions) \/ index = JSONDecodeError THEN index
    ELSE IndexPartitions(files, partitions, i + 1, id_field,
            IndexLines(files[partitions[i]], 1, partitions[i], id_field, index))

\* Mutant: the enumeration of the partitions starts one file late.
BuildIndexSkippingFirstPartition(files, id_field) ==
    IndexPartitions(files, SortedPartitions(files), 2, id_field, NoMap)

\* Mutant: every id is bound to the partition the enumeration ended with.
BuildIndexBindingLastPartition(files, id_field) ==
    LET index == IndexPartitions(files, SortedPartitions(files), 1, id_field, NoMap)
        partitions == SortedPartitions(files)
    IN [id \in DOMAIN index |-> partitions[Len(partitions)]]

\* _build_index
BuildIndex(files, id_field) ==
    IndexPartitions(files, SortedPartitions(files), 1, id_field, NoMap)

\* Mutant: the index is created empty instead of being read from disk.
GetSignalIndexWithoutScan(S) ==
    IF S.signal_index.built THEN S
    ELSE [S EXCEPT !.signal_index = [built |-> TRUE, map |-> NoMap]]

\* _get_signal_index / _get_emission_index: build on first use, then memoized;
\* a build that raises assigns nothing, so the index stays unbuilt.
GetSignalIndex(S) ==
    IF S.signal_index.built THEN S
    ELSE LET index == BuildIndex(S.signal_files, "signal_id")
         IN IF index = JSONDecodeError THEN S
            ELSE [S EXCEPT !.signal_index = [built |-> TRUE, map |-> index]]

GetEmissionIndex(S) ==
    IF S.emission_index.built THEN S
    ELSE LET index == BuildIndex(S.emission_files, "emission_id")
         IN IF index = JSONDecodeError THEN S
            ELSE [S EXCEPT !.emission_index = [built |-> TRUE, map |-> index]]

\* dict.get(id): the bound path, or None.
IndexGet(index, id) == IF id \in DOMAIN index.map THEN <<index.map[id]>> ELSE <<>>

\* ------------------------------------------------------------- append writer
\* Mutant: the existing path is ignored and every id is taken as new.
ResolveDuplicateAlwaysNew(existing_path, on_duplicate, id_field, id_value) ==
    [kind |-> "ok", path |-> <<>>, message |-> <<>>]

\* Mutant: under policy raise a duplicate is answered with the existing path.
ResolveDuplicateRaiseTolerated(existing_path, on_duplicate, id_field, id_value) ==
    IF existing_path = <<>> THEN [kind |-> "ok", path |-> <<>>, message |-> <<>>]
    ELSE IF on_duplicate \in {"ignore", "return_existing", "raise"}
         THEN [kind |-> "ok", path |-> existing_path, message |-> <<>>]
    ELSE [kind |-> "ValueError", path |-> <<>>,
          message |-> <<"Unsupported duplicate policy", on_duplicate>>]

\* _resolve_duplicate: None for a new id, the existing path for a tolerated
\* duplicate, an error otherwise.  `message` holds the values the exception
\* text is formatted from.

ResolveDuplicate(existing_path, on_duplicate, id_field, id_value) ==
    IF existing_path = <<>> THEN [kind |-> "ok", path |-> <<>>, message |-> <<>>]
    ELSE IF on_duplicate \in {"ignore", "return_existing"}
         THEN [kind |-> "ok", path |-> existing_path, message |-> <<>>]
    ELSE IF on_duplicate = "raise"
         THEN [kind |-> "DuplicateEventError", path |-> existing_path,
               message |-> <<"Duplicate", id_field, id_value, existing_path[1]>>]
    ELSE [kind |-> "ValueError", path |-> <<>>,
          message |-> <<"Unsupported duplicate policy", on_duplicate>>]

Raise(S, kind, message) == [store |-> S, kind |-> kind, path |-> <<>>, message |-> message]
Return(S, path) == [store |-> S, kind |-> "ok", path |-> path, message |-> <<>>]

\* Mutant: the date is taken before the timestamp is normalized to UTC.
DestinationByWallDate(timestamp) == DateOf(timestamp)

\* The partition a write routes to: <dir>/<UTC date>.jsonl

Destination(timestamp) == DateOf(EnsureUtc(timestamp))

\* Mutant: the append is not followed by the index update.
WriteSignalWithoutIndexUpdate(S, signal, on_duplicate) ==
    IF signal.signal_id = "" THEN Raise(S, "ValueError", <<"signal_id is required for stable IDs">>)
    ELSE IF signal.schema_version = ""
         THEN Raise(S, "ValueError", <<"schema_version is required">>)
    ELSE LET S1 == GetSignalIndex(S)
             existing == IndexGet(S1.signal_index, signal.signal_id)
             duplicate == ResolveDuplicate(existing, on_duplicate,
                                          "signal_id", signal.signal_id)
             destination == Destination(signal.timestamp)
         IN IF duplicate.kind # "ok" THEN Raise(S1, duplicate.kind, duplicate.message)
            ELSE IF duplicate.path # <<>> THEN Return(S1, duplicate.path)
            ELSE Return([S1 EXCEPT
                    !.signal_files = AppendLine(@, destination, ToDict(signal))],
                    <<destination>>)

\* Mutant: the envelope is written without the checks of its id and schema_version.
WriteSignalUnvalidated(S, signal, on_duplicate) ==
    LET S1 == GetSignalIndex(S)
        existing == IndexGet(S1.signal_index, signal.signal_id)
        duplicate == ResolveDuplicate(existing, on_duplicate,
                                      "signal_id", signal.signal_id)
        destination == Destination(signal.timestamp)
    IN IF duplicate.kind # "ok" THEN Raise(S1, duplicate.kind, duplicate.message)
       ELSE IF duplicate.path # <<>> THEN Return(S1, duplicate.path)
       ELSE Return([S1 EXCEPT
               !.signal_files = AppendLine(@, destination, ToDict(signal)),
               !.signal_index.map = (signal.signal_id :> destination) @@ @],
               <<destination>>)

\* Mutant: a tolerated duplicate rebinds the id to the partition of the
\* envelope just handed in.
WriteSignalRebinding(S, signal, on_duplicate) ==
    IF signal.signal_id = "" THEN Raise(S, "ValueError", <<"signal_id is required for stable IDs">>)
    ELSE IF signal.schema_version = ""
         THEN Raise(S, "ValueError", <<"schema_version is required">>)
    ELSE LET S1 == GetSignalIndex(S)
             existing == IndexGet(S1.signal_index, signal.signal_id)
             duplicate == ResolveDuplicate(existing, on_duplicate,
                                          "signal_id", signal.signal_id)
             destination == Destination(signal.timestamp)
         IN IF duplicate.kind # "ok" THEN Raise(S1, duplicate.kind, duplicate.message)
            ELSE IF duplicate.path # <<>>
            THEN Return([S1 EXCEPT !.signal_index.map =
                            (signal.signal_id :> destination) @@ @], duplicate.path)
            ELSE Return([S1 EXCEPT
                    !.signal_files = AppendLine(@, destination, ToDict(signal)),
                    !.signal_index.map =
                        (signal.signal_id :> destination) @@ @],
                    <<destination>>)

\* write_signal
WriteSignalCall(S, signal, on_duplicate) ==
    IF signal.signal_id = "" THEN Raise(S, "ValueError", <<"signal_id is required for stable IDs">>)
    ELSE IF signal.schema_version = ""
         THEN Raise(S, "ValueError", <<"schema_version is required">>)
    ELSE LET S1 == GetSignalIndex(S)
             existing == IndexGet(S1.signal_index, signal.signal_id)
             duplicate == ResolveDuplicate(existing, on_duplicate,
                                          "signal_id", signal.signal_id)
             destination == Destination(signal.timestamp)
         IN IF ~S1.signal_index.built THEN Raise(S, "JSONDecodeError", <<>>)
            ELSE IF duplicate.kind # "ok" THEN Raise(S1, duplicate.kind, duplicate.message)
            ELSE IF duplicate.path # <<>> THEN Return(S1, duplicate.path)
            ELSE Return([S1 EXCEPT
                    !.signal_files = AppendLine(@, destination, ToDict(signal)),
                    !.signal_index.map =
                        (signal.signal_id :> destination) @@ @],
                    <<destination>>)

\* write_signal up to the duplicate decision: validation, the index (built on
\* first use) and _resolve_duplicate.  `pending` holds the signal when the
\* call goes on to append it.
WriteSignalCheck(S, signal, on_duplicate) ==
    IF signal.signal_id = ""
    THEN [Raise(S, "ValueError", <<"signal_id is required for stable IDs">>)
            EXCEPT !.message = <<>>] @@ [pending |-> <<>>]
    ELSE IF signal.schema_version = ""
         THEN [Raise(S, "ValueError", <<"schema_version is required">>)
                EXCEPT !.message = <<>>] @@ [pending |-> <<>>]
    ELSE LET S1 == GetSignalIndex(S)
             existing == IndexGet(S1.signal_index, signal.signal_id)
             duplicate == ResolveDuplicate(existing, on_duplicate,
                                          "signal_id", signal.signal_id)
         IN IF ~S1.signal_index.built
            THEN Raise(S, "JSONDecodeError", <<>>) @@ [pending |-> <<>>]
            ELSE IF duplicate.kind # "ok"
            THEN Raise(S1, duplicate.kind, <<>>) @@ [pending |-> <<>>]
            ELSE IF duplicate.path # <<>>
            THEN Return(S1, duplicate.path) @@ [pending |-> <<>>]
            ELSE Return(S1, <<>>) @@ [pending |-> <<signal>>]

\* write_signal from the append on: the line is written to the file as it is
\* by then, and the id is bound in the index read before.
WriteSignalAppend(S, signal) ==
    LET destination == Destination(signal.timestamp)
    IN Return([S EXCEPT
            !.signal_files = AppendLine(@, destination, ToDict(signal)),
            !.signal_index.map = (signal.signal_id :> destination) @@ @],
            <<destination>>)

\* write_signal ending inside its append, by an exception or because the
\* process stops: before destination.open ("open"), before the JSON text is
\* written ("text"), before the newline is written ("newline"), or before the
\* id is bound in the index ("index").  A call that returns or raises before
\* the append ends as write_signal does.
InterruptedSteps == {"open", "text", "newline", "index"}

WriteSignalInterrupted(S, signal, on_duplicate, step) ==
    LET checked == WriteSignalCheck(S, signal, on_duplicate)
        destination == Destination(signal.timestamp)
        files == checked.store.signal_files
        opened == OpenAppend(files, destination)
    IN IF checked.pending = <<>> THEN checked
       ELSE [checked EXCEPT !.kind = "interrupted", !.store.signal_files =
                CASE step = "open" -> files
                  [] step = "text" -> opened
                  [] step = "newline" ->
                        [opened EXCEPT ![destination] = WriteJson(@, ToDict(signal))]
                  [] OTHER -> AppendLine(files, destination, ToDict(signal))]

\* write_emission
WriteEmissionCall(S, emission, on_duplicate) ==
    IF emission.emission_id = "" THEN Raise(S, "ValueError", <<"emission_id is required for stable IDs">>)
    ELSE IF emission.schema_version = ""
         THEN Raise(S, "ValueError", <<"schema_version is required">>)
    ELSE LET S1 == GetEmissionIndex(S)
             existing == IndexGet(S1.emission_index, emission.emission_id)
             duplicate == ResolveDuplicate(existing, on_duplicate,
                                          "emission_id", emission.emission_id)
             destination == Destination(emission.timestamp)
         IN IF ~S1.emission_index.built THEN Raise(S, "JSONDecodeError", <<>>)
            ELSE IF duplicate.kind # "ok" THEN Raise(S1, duplicate.kind, duplicate.message)
            ELSE IF duplicate.path # <<>> THEN Return(S1, duplicate.path)
            ELSE Return([S1 EXCEPT
                    !.emission_files = AppendLine(@, destination, ToDict(emission)),
                    !.emission_index.map =
                        (emission.emission_id :> destination) @@ @],
                    <<destination>>)

\* write_emission up to the duplicate decision, as WriteSignalCheck.
WriteEmissionCheck(S, emission, on_duplicate) ==
    IF emission.emission_id = ""
    THEN [Raise(S, "ValueError", <<"emission_id is required for stable IDs">>)
            EXCEPT !.message = <<>>] @@ [pending |-> <<>>]
    ELSE IF emission.schema_version = ""
         THEN [Raise(S, "ValueError", <<"schema_version is required">>)
                EXCEPT !.message = <<>>] @@ [pending |-> <<>>]
    ELSE LET S1 == GetEmissionIndex(S)
             existing == IndexGet(S1.emission_index, emission.emission_id)
             duplicate == ResolveDuplicate(existing, on_duplicate,
                                          "emission_id", emission.emission_id)
         IN IF ~S1.emission_index.built
            THEN Raise(S, "JSONDecodeError", <<>>) @@ [pending |-> <<>>]
            ELSE IF duplicate.kind # "ok"
            THEN Raise(S1, duplicate.kind, <<>>) @@ [pending |-> <<>>]
            ELSE IF duplicate.path # <<>>
            THEN Return(S1, duplicate.path) @@ [pending |-> <<>>]
            ELSE Return(S1, <<>>) @@ [pending |-> <<emission>>]

\* write_emission from the append on, as WriteSignalAppend.
WriteEmissionAppend(S, emission) ==
    LET destination == Destination(emission.timestamp)
    IN Return([S EXCEPT
            !.emission_files = AppendLine(@, destination, ToDict(emission)),
            !.emission_index.map = (emission.emission_id :> destination) @@ @],
            <<destination>>)

\* Mutant: the path of an element that appended nothing is left out of the list.
RECURSIVE WriteSignalsListingAppendsOnly(_, _, _, _, _)
WriteSignalsListingAppendsOnly(S, signals, i, on_duplicate, partial) ==
    IF i > Len(signals)
    THEN [store |-> S, kind |-> "ok", paths |-> partial, partial |-> partial]
    ELSE LET r == WriteSignalCall(S, signals[i], on_duplicate)
         IN IF r.kind # "ok"
            THEN [store |-> r.store, kind |-> r.kind, paths |-> <<>>, partial |-> partial]
            ELSE WriteSignalsListingAppendsOnly(r.store, signals, i + 1, on_duplicate,
                    IF r.store.signal_files = S.signal_files THEN partial
                    ELSE partial \o r.path)

\* Mutant: a batch that ends in an error leaves the store as it found it.
RECURSIVE WriteSignalsRollingBack(_, _, _, _, _)
WriteSignalsRollingBack(S, signals, i, on_duplicate, partial) ==
    IF i > Len(signals)
    THEN [store |-> S, kind |-> "ok", paths |-> partial, partial |-> partial]
    ELSE LET r == WriteSignalCall(S, signals[i], on_duplicate)
             rest == WriteSignalsRollingBack(r.store, signals, i + 1, on_duplicate,
                                             partial \o r.path)
         IN IF r.kind # "ok"
            THEN [store |-> S, kind |-> r.kind, paths |-> <<>>, partial |-> <<>>]
            ELSE IF rest.kind # "ok" THEN [rest EXCEPT !.store = S]
            ELSE rest

\* write_signals / write_emissions: [write(x) for x in batch].  `partial` is the
\* list under construction; it is returned only when no element raises.
RECURSIVE WriteSignalsCall(_, _, _, _, _)
WriteSignalsCall(S, signals, i, on_duplicate, partial) ==
    IF i > Len(signals)
    THEN [store |-> S, kind |-> "ok", paths |-> partial, partial |-> partial]
    ELSE LET r == WriteSignalCall(S, signals[i], on_duplicate)
         IN IF r.kind # "ok"
            THEN [store |-> r.store, kind |-> r.kind, paths |-> <<>>, partial |-> partial]
            ELSE WriteSignalsCall(r.store, signals, i + 1, on_duplicate,
                                  partial \o r.path)

RECURSIVE WriteEmissionsCall(_, _, _, _, _)
WriteEmissionsCall(S, emissions, i, on_duplicate, partial) ==
    IF i > Len(emissions)
    THEN [store |-> S, kind |-> "ok", paths |-> partial, partial |-> partial]
    ELSE LET r == WriteEmissionCall(S, emissions[i], on_duplicate)
         IN IF r.kind # "ok"
            THEN [store |-> r.store, kind |-> r.kind, paths |-> <<>>, partial |-> partial]
            ELSE WriteEmissionsCall(r.store, emissions, i + 1, on_duplicate,
                                    partial \o r.path)

\* ------------------------------------------------------------- range scanner
\* _iter_days: every day from start_day to end_day inclusive.
IterDays(start_day, end_day) == [k \in 1..(end_day - start_day + 1) |-> start_day + k - 1]

\* `sources if sources else None`: None and the empty list both mean no filter.
FilterSet(values) ==
    IF values = <<>> \/ values[1] = <<>> THEN <<>>
    ELSE <<{values[1][k] : k \in 1..Len(values[1])}>>

Contains(refs, ref) == \E k \in 1..Len(refs) : refs[k] = ref

\* Mutant: the upper bound of the range is exclusive.
SignalPassesExclusiveEnd(signal, start_utc, end_utc, entity_ref, source_set, seen) ==
    LET signal_ts == EnsureUtc(signal.timestamp)
    IN /\ ~(signal_ts.wall < start_utc.wall \/ signal_ts.wall >= end_utc.wall)
       /\ signal.signal_id \notin seen
       /\ ~(source_set # <<>> /\ signal.source \notin source_set[1])
       /\ ~(entity_ref # <<>> /\ ~Contains(signal.entity_refs, entity_ref[1]))

\* Mutant: the scan does not skip an id it has yielded.
SignalPassesWithoutSeen(signal, start_utc, end_utc, entity_ref, source_set, seen) ==
    LET signal_ts == EnsureUtc(signal.timestamp)
    IN /\ ~(signal_ts.wall < start_utc.wall \/ signal_ts.wall > end_utc.wall)
       /\ ~(source_set # <<>> /\ signal.source \notin source_set[1])
       /\ ~(entity_ref # <<>> /\ ~Contains(signal.entity_refs, entity_ref[1]))

\* The body of the scan loop for one signal line: does it pass, given `seen`?
SignalPasses(signal, start_utc, end_utc, entity_ref, source_set, seen) ==
    LET signal_ts == EnsureUtc(signal.timestamp)
    IN /\ ~(signal_ts.wall < start_utc.wall \/ signal_ts.wall > end_utc.wall)
       /\ signal.signal_id \notin seen
       /\ ~(source_set # <<>> /\ signal.source \notin source_set[1])
       /\ ~(entity_ref # <<>> /\ ~Contains(signal.entity_refs, entity_ref[1]))

EmissionPasses(emission, start_utc, end_utc, entity_ref, emission_type_set, seen) ==
    LET emission_ts == EnsureUtc(emission.timestamp)
    IN /\ ~(emission_ts.wall < start_utc.wall \/ emission_ts.wall > end_utc.wall)
       /\ emission.emission_id \notin seen
       /\ ~(emission_type_set # <<>> /\ emission.emission_type \notin emission_type_set[1])
       /\ ~(entity_ref # <<>> /\ ~Contains(emission.entity_refs, entity_ref[1]))

\* iter_signals, inner loop over the lines of one partition.
RECURSIVE ScanSignalLines(_, _, _, _, _, _, _)
ScanSignalLines(lines, i, start_utc, end_utc, entity_ref, source_set, acc) ==
    IF i > Len(lines) \/ acc.kind # "ok" THEN acc
    ELSE IF IsBlank(lines[i])
    THEN ScanSignalLines(lines, i + 1, start_utc, end_utc, entity_ref, source_set, acc)
    ELSE LET record == JsonLoads(lines[i])
             signal == FromDict(record)
         IN IF record = JSONDecodeError THEN [acc EXCEPT !.kind = "JSONDecodeError"]
            ELSE ScanSignalLines(lines, i + 1, start_utc, end_utc, entity_ref, source_set,
                    IF SignalPasses(signal, start_utc, end_utc, entity_ref, source_set,
                                    acc.seen)
                    THEN [acc EXCEPT !.seen = @ \cup {signal.signal_id},
                                     !.out = Append(@, signal)]
                    ELSE acc)

\* iter_signals, outer loop over the days of the range; a missing file is skipped.
RECURSIVE ScanSignalDays(_, _, _, _, _, _, _, _)
ScanSignalDays(files, days, i, start_utc, end_utc, entity_ref, source_set, acc) ==
    IF i > Len(days) \/ acc.kind # "ok" THEN acc
    ELSE ScanSignalDays(files, days, i + 1, start_utc, end_utc, entity_ref, source_set,
            IF ~Exists(files, days[i]) THEN acc
            ELSE ScanSignalLines(files[days[i]], 1, start_utc, end_utc,
                                 entity_ref, source_set, acc))

\* Mutant: a range whose end equals its start is rejected.
IterSignalsRejectingEqual(files, start, end, entity_ref, sources) ==
    LET start_utc == EnsureUtc(start)
        end_utc == EnsureUtc(end)
    IN IF end_utc.wall <= start_utc.wall
       THEN [kind |-> "ValueError", out |-> <<>>]
       ELSE [kind |-> "ok",
             out |-> ScanSignalDays(files, IterDays(DateOf(start_utc), DateOf(end_utc)), 1,
                        start_utc, end_utc, entity_ref, FilterSet(sources),
                        [kind |-> "ok", seen |-> {}, out |-> <<>>]).out]

\* iter_signals(start, end, entity_ref, sources), consumed to its end.
IterSignals(files, start, end, entity_ref, sources) ==
    LET start_utc == EnsureUtc(start)
        end_utc == EnsureUtc(end)
        scan == ScanSignalDays(files, IterDays(DateOf(start_utc), DateOf(end_utc)), 1,
                    start_utc, end_utc, entity_ref, FilterSet(sources),
                    [kind |-> "ok", seen |-> {}, out |-> <<>>])
    IN IF end_utc.wall < start_utc.wall
       THEN [kind |-> "ValueError", out |-> <<>>]
       ELSE [kind |-> scan.kind, out |-> scan.out]

\* iter_signals(start, end, entity_ref, sources) as the generator it is: the
\* call returns at once, and the body runs from one yield to the next each
\* time the caller asks for an element.  Between two such steps the generator
\* holds its place: the day it is at, whether that day's file is open, the
\* number of lines the handle has given it (read), the handle's place in the
\* file (line, within), and the ids it has yielded.
IterSignalsLazy(start, end, entity_ref, sources) ==
    LET start_utc == EnsureUtc(start)
        end_utc == EnsureUtc(end)
    IN [start_utc |-> start_utc, end_utc |-> end_utc, entity_ref |-> entity_ref,
        source_set |-> FilterSet(sources),
        days |-> IterDays(DateOf(start_utc), DateOf(end_utc)),
        day |-> 1, open |-> FALSE, read |-> 0, line |-> 0, within |-> 0,
        seen |-> {}, out |-> <<>>, kind |-> "running"]

\* What a handle finds from its place on, when it has read `within` texts of
\* the line: nothing, the newline alone, or the texts written since, which are
\* JSON texts of the store or the text of another program.
RestOfLine(line, within) ==
    IF within = 0 THEN line
    ELSE LineOf(SubSeq(Texts(line), within + 1, Len(Texts(line))), Terminated(line))

\* for line in handle, one read: the handle keeps a byte offset, here the
\* number of whole lines behind it and the number of texts it has read of a
\* line whose newline was missing.  The text runs to the next newline or to
\* the end of the file; NoText at the end of the file.
ReadLine(lines, line, within) ==
    IF line >= Len(lines) THEN [text |-> NoText, line |-> line, within |-> 0]
    ELSE IF Terminated(lines[line + 1])
    THEN [text |-> RestOfLine(lines[line + 1], within), line |-> line + 1, within |-> 0]
    ELSE [text |-> RestOfLine(lines[line + 1], within), line |-> line,
          within |-> Len(Texts(lines[line + 1]))]

\* Mutant: the generator ends at the end of the first file it has opened.
RECURSIVE IterSignalsNextEndingAtEof(_, _)
IterSignalsNextEndingAtEof(files, g) ==
    IF g.kind # "running" THEN g
    ELSE IF g.end_utc.wall < g.start_utc.wall THEN [g EXCEPT !.kind = "ValueError"]
    ELSE IF g.day > Len(g.days) THEN [g EXCEPT !.kind = "ok"]
    ELSE IF ~g.open
    THEN IF ~Exists(files, g.days[g.day])
         THEN IterSignalsNextEndingAtEof(files, [g EXCEPT !.day = @ + 1])
         ELSE IterSignalsNextEndingAtEof(files, [g EXCEPT !.open = TRUE, !.read = 0,
                                           !.line = 0, !.within = 0])
    ELSE LET got == ReadLine(files[g.days[g.day]], g.line, g.within)
             line == got.text
             g1 == [g EXCEPT !.read = @ + 1, !.line = got.line, !.within = got.within]
             record == JsonLoads(line)
             signal == FromDict(record)
         IN IF line = NoText
            THEN [g EXCEPT !.kind = "ok"]
            ELSE IF IsBlank(line) THEN IterSignalsNextEndingAtEof(files, g1)
            ELSE IF record = JSONDecodeError THEN [g1 EXCEPT !.kind = "JSONDecodeError"]
            ELSE IF SignalPasses(signal, g.start_utc, g.end_utc, g.entity_ref,
                                 g.source_set, g.seen)
            THEN [g1 EXCEPT !.seen = @ \cup {signal.signal_id}, !.out = Append(@, signal)]
            ELSE IterSignalsNextEndingAtEof(files, g1)

\* next() on that generator: the body runs on the files as they are now, up to
\* the next yield, the end of the last day (StopIteration, kind "ok") or an
\* exception.  The range check is the first statement of the body, so a range
\* whose end lies before its start raises ValueError at the first next() and
\* not at the call.  A file is looked for when its day is reached, and its end
\* is found when a read from the handle's place finds no text.
RECURSIVE IterSignalsNext(_, _)
IterSignalsNext(files, g) ==
    IF g.kind # "running" THEN g
    ELSE IF g.end_utc.wall < g.start_utc.wall THEN [g EXCEPT !.kind = "ValueError"]
    ELSE IF g.day > Len(g.days) THEN [g EXCEPT !.kind = "ok"]
    ELSE IF ~g.open
    THEN IF ~Exists(files, g.days[g.day])
         THEN IterSignalsNext(files, [g EXCEPT !.day = @ + 1])
         ELSE IterSignalsNext(files, [g EXCEPT !.open = TRUE, !.read = 0,
                                           !.line = 0, !.within = 0])
    ELSE LET got == ReadLine(files[g.days[g.day]], g.line, g.within)
             line == got.text
             g1 == [g EXCEPT !.read = @ + 1, !.line = got.line, !.within = got.within]
             record == JsonLoads(line)
             signal == FromDict(record)
         IN IF line = NoText
            THEN IterSignalsNext(files, [g EXCEPT !.day = @ + 1, !.open = FALSE, !.read = 0,
                                                   !.line = 0, !.within = 0])
            ELSE IF IsBlank(line) THEN IterSignalsNext(files, g1)
            ELSE IF record = JSONDecodeError THEN [g1 EXCEPT !.kind = "JSONDecodeError"]
            ELSE IF SignalPasses(signal, g.start_utc, g.end_utc, g.entity_ref,
                                 g.source_set, g.seen)
            THEN [g1 EXCEPT !.seen = @ \cup {signal.signal_id}, !.out = Append(@, signal)]
            ELSE IterSignalsNext(files, g1)

\* One step of that body, for a caller in another process than the writer:
\* the range check together with the first look at the directory, then one
\* look for a day's file (path.exists, path.open), or one line read from the
\* open file, or the end of the file found.  A write of the other process
\* can fall between any two of these, not only between two elements.
IterSignalsStep(files, g) ==
    IF g.kind # "running" THEN g
    ELSE IF g.end_utc.wall < g.start_utc.wall THEN [g EXCEPT !.kind = "ValueError"]
    ELSE IF g.day > Len(g.days) THEN [g EXCEPT !.kind = "ok"]
    ELSE IF ~g.open
    THEN IF ~Exists(files, g.days[g.day])
         THEN [g EXCEPT !.day = @ + 1]
         ELSE [g EXCEPT !.open = TRUE, !.read = 0, !.line = 0, !.within = 0]
    ELSE LET got == ReadLine(files[g.days[g.day]], g.line, g.within)
             line == got.text
             g1 == [g EXCEPT !.read = @ + 1, !.line = got.line, !.within = got.within]
             record == JsonLoads(line)
             signal == FromDict(record)
         IN IF line = NoText
            THEN [g EXCEPT !.day = @ + 1, !.open = FALSE, !.read = 0, !.line = 0, !.within = 0]
            ELSE IF IsBlank(line) THEN g1
            ELSE IF record = JSONDecodeError THEN [g1 EXCEPT !.kind = "JSONDecodeError"]
            ELSE IF SignalPasses(signal, g.start_utc, g.end_utc, g.entity_ref,
                                 g.source_set, g.seen)
            THEN [g1 EXCEPT !.seen = @ \cup {signal.signal_id}, !.out = Append(@, signal)]
            ELSE g1

RECURSIVE ScanEmissionLines(_, _, _, _, _, _, _)
ScanEmissionLines(lines, i, start_utc, end_utc, entity_ref, emission_type_set, acc) ==
    IF i > Len(lines) \/ acc.kind # "ok" THEN acc
    ELSE IF IsBlank(lines[i])
    THEN ScanEmissionLines(lines, i + 1, start_utc, end_utc, entity_ref,
                           emission_type_set, acc)
    ELSE LET record == JsonLoads(lines[i])
             emission == FromDict(record)
         IN IF record = JSONDecodeError THEN [acc EXCEPT !.kind = "JSONDecodeError"]
            ELSE ScanEmissionLines(lines, i + 1, start_utc, end_utc, entity_ref,
                    emission_type_set,
                    IF EmissionPasses(emission, start_utc, end_utc, entity_ref,
                                      emission_type_set, acc.seen)
                    THEN [acc EXCEPT !.seen = @ \cup {emission.emission_id},
                                     !.out = Append(@, emission)]
                    ELSE acc)

RECURSIVE ScanEmissionDays(_, _, _, _, _, _, _, _)
ScanEmissionDays(files, days, i, start_utc, end_utc, entity_ref, emission_type_set, acc) ==
    IF i > Len(days) \/ acc.kind # "ok" THEN acc
    ELSE ScanEmissionDays(files, days, i + 1, start_utc, end_utc, entity_ref,
            emission_type_set,
            IF ~Exists(files, days[i]) THEN acc
            ELSE ScanEmissionLines(files[days[i]], 1, start_utc, end_utc,
                                   entity_ref, emission_type_set, acc))

\* iter_emissions(start, end, entity_ref, emission_types), consumed to its end.
IterEmissions(files, start, end, entity_ref, emission_types) ==
    LET start_utc == EnsureUtc(start)
        end_utc == EnsureUtc(end)
        scan == ScanEmissionDays(files, IterDays(DateOf(start_utc), DateOf(end_utc)), 1,
                    start_utc, end_utc, entity_ref, FilterSet(emission_types),
                    [kind |-> "ok", seen |-> {}, out |-> <<>>])
    IN IF end_utc.wall < start_utc.wall
       THEN [kind |-> "ValueError", out |-> <<>>]
       ELSE [kind |-> scan.kind, out |-> scan.out]

\* ------------------------------------------------------------- checkpoints
\* datetime(1970, 1, 1, tzinfo=utc): the start of the day before day 0, earlier
\* than every timestamp of the model.
Epoch == [wall |-> 0 - TicksPerDay, tz |-> "utc"]

\* ReplayCheckpoint.__post_init__: dict.fromkeys keeps the first of each id.
RECURSIVE Unique(_, _, _)
Unique(ids, i, acc) ==
    IF i > Len(ids) THEN acc
    ELSE Unique(ids, i + 1,
            IF \E k \in 1..Len(acc) : acc[k] = ids[i] THEN acc ELSE Append(acc, ids[i]))

ReplayCheckpoint(last_timestamp, seen_ids_at_timestamp) ==
    [last_timestamp |-> EnsureUtc(last_timestamp),
     seen_ids_at_timestamp |-> Unique(seen_ids_at_timestamp, 1, <<>>),
     schema_version |-> "0.1"]

\* Mutant: the id list is not reset when a strictly greater timestamp appears.
RECURSIVE BuildWalkWithoutReset(_, _, _, _)
BuildWalkWithoutReset(processed_signals, i, last_ts, ids_at_last_ts) ==
    IF i > Len(processed_signals)
    THEN [kind |-> "ok", last_ts |-> last_ts, ids |-> ids_at_last_ts]
    ELSE LET signal == processed_signals[i]
             signal_ts == EnsureUtc(signal.timestamp)
             ids == IF \E k \in 1..Len(ids_at_last_ts) :
                            ids_at_last_ts[k] = signal.signal_id
                    THEN ids_at_last_ts
                    ELSE Append(ids_at_last_ts, signal.signal_id)
         IN IF last_ts = <<>> \/ signal_ts.wall > last_ts[1].wall
            THEN BuildWalkWithoutReset(processed_signals, i + 1, <<signal_ts>>, ids)
            ELSE IF signal_ts.wall < last_ts[1].wall
            THEN [kind |-> "ValueError", last_ts |-> <<>>, ids |-> <<>>]
            ELSE BuildWalkWithoutReset(processed_signals, i + 1, last_ts, ids)

\* Mutant: a timestamp smaller than the last one is not rejected.
RECURSIVE BuildWalkUnchecked(_, _, _, _)
BuildWalkUnchecked(processed_signals, i, last_ts, ids_at_last_ts) ==
    IF i > Len(processed_signals)
    THEN [kind |-> "ok", last_ts |-> last_ts, ids |-> ids_at_last_ts]
    ELSE LET signal == processed_signals[i]
             signal_ts == EnsureUtc(signal.timestamp)
         IN IF last_ts = <<>> \/ signal_ts.wall > last_ts[1].wall
            THEN BuildWalkUnchecked(processed_signals, i + 1, <<signal_ts>>,
                                    <<signal.signal_id>>)
            ELSE BuildWalkUnchecked(processed_signals, i + 1, last_ts,
                    IF \E k \in 1..Len(ids_at_last_ts) :
                            ids_at_last_ts[k] = signal.signal_id
                    THEN ids_at_last_ts
                    ELSE Append(ids_at_last_ts, signal.signal_id))

\* build_signal_checkpoint, the loop: last_ts is None (<<>>) or <<datetime>>.
RECURSIVE BuildWalk(_, _, _, _)
BuildWalk(processed_signals, i, last_ts, ids_at_last_ts) ==
    IF i > Len(processed_signals)
    THEN [kind |-> "ok", last_ts |-> last_ts, ids |-> ids_at_last_ts]
    ELSE LET signal == processed_signals[i]
             signal_ts == EnsureUtc(signal.timestamp)
         IN IF last_ts = <<>> \/ signal_ts.wall > last_ts[1].wall
            THEN BuildWalk(processed_signals, i + 1, <<signal_ts>>, <<signal.signal_id>>)
            ELSE IF signal_ts.wall < last_ts[1].wall
            THEN [kind |-> "ValueError", last_ts |-> <<>>, ids |-> <<>>]
            ELSE BuildWalk(processed_signals, i + 1, last_ts,
                    IF \E k \in 1..Len(ids_at_last_ts) :
                            ids_at_last_ts[k] = signal.signal_id
                    THEN ids_at_last_ts
                    ELSE Append(ids_at_last_ts, signal.signal_id))

\* build_signal_checkpoint: None (<<>>) for an empty sequence.
BuildSignalCheckpoint(processed_signals) ==
    LET w == BuildWalk(processed_signals, 1, <<>>, <<>>)
    IN IF w.kind # "ok" THEN [kind |-> w.kind, checkpoint |-> <<>>]
       ELSE IF w.last_ts = <<>> THEN [kind |-> "ok", checkpoint |-> <<>>]
       ELSE [kind |-> "ok", checkpoint |-> <<ReplayCheckpoint(w.last_ts[1], w.ids)>>]

\* Mutant: every record at the checkpoint's timestamp is dropped, seen or not.
RECURSIVE DropSeenDroppingBoundary(_, _, _)
DropSeenDroppingBoundary(signals, i, checkpoint) ==
    IF i > Len(signals) THEN <<>>
    ELSE LET signal_ts == EnsureUtc(signals[i].timestamp)
             skip == /\ checkpoint # <<>>
                     /\ signal_ts.wall = EnsureUtc(checkpoint[1].last_timestamp).wall
         IN (IF skip THEN <<>> ELSE <<signals[i]>>)
                \o DropSeenDroppingBoundary(signals, i + 1, checkpoint)

\* iter_signals_from_checkpoint, the filter over the scan's records.
RECURSIVE DropSeen(_, _, _)
DropSeen(signals, i, checkpoint) ==
    IF i > Len(signals) THEN <<>>
    ELSE LET signal_ts == EnsureUtc(signals[i].timestamp)
             skip == /\ checkpoint # <<>>
                     /\ signal_ts.wall = EnsureUtc(checkpoint[1].last_timestamp).wall
                     /\ \E k \in 1..Len(checkpoint[1].seen_ids_at_timestamp) :
                            checkpoint[1].seen_ids_at_timestamp[k] = signals[i].signal_id
         IN (IF skip THEN <<>> ELSE <<signals[i]>>) \o DropSeen(signals, i + 1, checkpoint)

\* Mutant: without a checkpoint the scan starts at the epoch, whatever start is.
IterSignalsFromCheckpointFromEpoch(files, end, checkpoint, start, entity_ref, sources) ==
    LET given_start == IF start # <<>> THEN EnsureUtc(start[1]) ELSE Epoch
        effective_start ==
            IF checkpoint = <<>> THEN Epoch
            ELSE IF EnsureUtc(checkpoint[1].last_timestamp).wall > given_start.wall
            THEN EnsureUtc(checkpoint[1].last_timestamp)
            ELSE given_start
        scan == IterSignals(files, effective_start, end, entity_ref, sources)
    IN [kind |-> scan.kind, out |-> DropSeen(scan.out, 1, checkpoint)]

\* Mutant: a checkpoint later than end gives an empty stream instead of the
\* error of the range check.
IterSignalsFromCheckpointClamped(files, end, checkpoint, start, entity_ref, sources) ==
    LET given_start == IF start # <<>> THEN EnsureUtc(start[1]) ELSE Epoch
        effective_start ==
            IF checkpoint # <<>>
               /\ EnsureUtc(checkpoint[1].last_timestamp).wall > given_start.wall
            THEN EnsureUtc(checkpoint[1].last_timestamp)
            ELSE given_start
        scan == IterSignals(files, effective_start, end, entity_ref, sources)
    IN IF effective_start.wall > EnsureUtc(end).wall /\ given_start.wall <= EnsureUtc(end).wall
       THEN [kind |-> "ok", out |-> <<>>]
       ELSE [kind |-> scan.kind, out |-> DropSeen(scan.out, 1, checkpoint)]

\* Mutant: with a checkpoint the scan starts at its timestamp, whatever start is.
IterSignalsFromCheckpointIgnoringStart(files, end, checkpoint, start, entity_ref, sources) ==
    LET given_start == IF start # <<>> THEN EnsureUtc(start[1]) ELSE Epoch
        effective_start ==
            IF checkpoint # <<>>
            THEN EnsureUtc(checkpoint[1].last_timestamp)
            ELSE given_start
        scan == IterSignals(files, effective_start, end, entity_ref, sources)
    IN [kind |-> scan.kind, out |-> DropSeen(scan.out, 1, checkpoint)]

\* Mutant: with a checkpoint the scan starts one tick after its timestamp.
IterSignalsFromCheckpointPastBoundary(files, end, checkpoint, start, entity_ref, sources) ==
    LET given_start == IF start # <<>> THEN EnsureUtc(start[1]) ELSE Epoch
        effective_start ==
            IF checkpoint # <<>>
               /\ EnsureUtc(checkpoint[1].last_timestamp).wall >= given_start.wall
            THEN [wall |-> EnsureUtc(checkpoint[1].last_timestamp).wall + 1, tz |-> "utc"]
            ELSE given_start
        scan == IterSignals(files, effective_start, end, entity_ref, sources)
    IN [kind |-> scan.kind, out |-> DropSeen(scan.out, 1, checkpoint)]

\* iter_signals_from_checkpoint(end, checkpoint, start, entity_ref, sources),
\* consumed to its end; start and checkpoint are None (<<>>) or one value.
IterSignalsFromCheckpoint(files, end, checkpoint, start, entity_ref, sources) ==
    LET given_start == IF start # <<>> THEN EnsureUtc(start[1]) ELSE Epoch
        effective_start ==
            IF checkpoint # <<>>
               /\ EnsureUtc(checkpoint[1].last_timestamp).wall > given_start.wall
            THEN EnsureUtc(checkpoint[1].last_timestamp)
            ELSE given_start
        scan == IterSignals(files, effective_start, end, entity_ref, sources)
    IN [kind |-> scan.kind, out |-> DropSeen(scan.out, 1, checkpoint)]

\* iter_signals_from_checkpoint as the generator it is: the call returns at
\* once; the body works out effective_start and then passes on the elements of
\* an iter_signals generator, which it holds in `scan`.
IterSignalsFromCheckpointLazy(end, checkpoint, start, entity_ref, sources) ==
    LET given_start == IF start # <<>> THEN EnsureUtc(start[1]) ELSE Epoch
        effective_start ==
            IF checkpoint # <<>>
               /\ EnsureUtc(checkpoint[1].last_timestamp).wall > given_start.wall
            THEN EnsureUtc(checkpoint[1].last_timestamp)
            ELSE given_start
    IN [scan |-> IterSignalsLazy(effective_start, end, entity_ref, sources),
        checkpoint |-> checkpoint, out |-> <<>>, kind |-> "running"]

\* One step of that generator's body: one step of the inner scan, on the
\* files as they are now; an element the inner scan yields is passed on unless
\* the checkpoint's filter drops it, and the inner scan's end or exception is
\* the generator's own.
IterSignalsFromCheckpointStep(files, g) ==
    IF g.kind # "running" THEN g
    ELSE LET scan == IterSignalsStep(files, g.scan)
             g1 == [g EXCEPT !.scan = scan]
         IN IF scan.kind # "running" THEN [g1 EXCEPT !.kind = scan.kind]
            ELSE IF Len(scan.out) = Len(g.scan.out) THEN g1
            ELSE LET signal == scan.out[Len(scan.out)]
                 IN IF DropSeen(<<signal>>, 1, g.checkpoint) = <<>>
                    THEN g1
                    ELSE [g1 EXCEPT !.out = Append(@, signal)]

\* ------------------------------------------------------------- ranked reads
\* The order of the id strings: "e1" < "e2" < "s1" < "s2" < "s3".
IdRank(id) ==
    CASE id = "e1" -> 1 [] id = "e2" -> 2 [] id = "s1" -> 3 [] id = "s2" -> 4 [] id = "s3" -> 5
      [] OTHER -> 0

\* Tuple comparison, as Python compares the sort keys.
RECURSIVE KeyLess(_, _, _)
KeyLess(a, b, i) ==
    IF i > Len(a) \/ i > Len(b) THEN Len(a) < Len(b)
    ELSE IF a[i] # b[i] THEN a[i] < b[i]
    ELSE KeyLess(a, b, i + 1)

\* list.sort(key = ..., reverse = True) on [key, value] items: descending by
\* key, items of equal key keep the order they had.
RECURSIVE InsertDescending(_, _, _)
InsertDescending(sorted, item, i) ==
    IF i > Len(sorted) THEN Append(sorted, item)
    ELSE IF KeyLess(sorted[i].key, item.key, 1)
    THEN SubSeq(sorted, 1, i - 1) \o <<item>> \o SubSeq(sorted, i, Len(sorted))
    ELSE InsertDescending(sorted, item, i + 1)

\* Mutant: the sort is ascending.
RECURSIVE SortReverseAscending(_, _, _)
SortReverseAscending(items, i, acc) ==
    IF i > Len(items) THEN acc
    ELSE SortReverseAscending(items, i + 1,
            LET lower == {k \in 1..Len(acc) : KeyLess(acc[k].key, items[i].key, 1)}
                n == Cardinality(lower)
            IN SubSeq(acc, 1, n) \o <<items[i]>> \o SubSeq(acc, n + 1, Len(acc)))

RECURSIVE SortReverse(_, _, _)
SortReverse(items, i, acc) ==
    IF i > Len(items) THEN acc
    ELSE SortReverse(items, i + 1, InsertDescending(acc, items[i], 1))

Values(items) == [k \in 1..Len(items) |-> items[k].value]

\* seq[:limit] for limit > 0
Take(seq, limit) == SubSeq(seq, 1, IF limit < Len(seq) THEN limit ELSE Len(seq))

\* key = (_ensure_utc(timestamp), id)
RecencyItems(envelopes, id_field) ==
    [k \in 1..Len(envelopes) |->
        [key |-> <<Instant(envelopes[k].timestamp), IdRank(envelopes[k][id_field])>>,
         value |-> envelopes[k]]]

\* get_recent_signals_by_entity; `now` is the reading of datetime.now(utc)
\* the call takes when end is None.
GetRecentSignalsByEntity(S, entity_ref, limit, start, end, sources, now) ==
    IF limit <= 0 THEN [kind |-> "ok", out |-> <<>>]
    ELSE LET end_utc == EnsureUtc(IF end # <<>> THEN end[1] ELSE now)
             start_utc == EnsureUtc(IF start # <<>> THEN start[1] ELSE Epoch)
             scan == IterSignals(S.signal_files, start_utc, end_utc, <<entity_ref>>, sources)
         IN IF scan.kind # "ok" THEN scan
            ELSE [kind |-> "ok",
                  out |-> Take(Values(SortReverse(RecencyItems(scan.out, "signal_id"),
                                                  1, <<>>)), limit)]

\* get_recent_signals_by_source
GetRecentSignalsBySource(S, source, limit, start, end, entity_ref, now) ==
    IF limit <= 0 THEN [kind |-> "ok", out |-> <<>>]
    ELSE LET end_utc == EnsureUtc(IF end # <<>> THEN end[1] ELSE now)
             start_utc == EnsureUtc(IF start # <<>> THEN start[1] ELSE Epoch)
             scan == IterSignals(S.signal_files, start_utc, end_utc, entity_ref,
                                 << <<source>> >>)
         IN IF scan.kind # "ok" THEN scan
            ELSE [kind |-> "ok",
                  out |-> Take(Values(SortReverse(RecencyItems(scan.out, "signal_id"),
                                                  1, <<>>)), limit)]

\* The records whose field is in the allow-list; no list, or an empty one, keeps all.
RECURSIVE KeepTypes(_, _, _, _)
KeepTypes(envelopes, i, field, type_set) ==
    IF i > Len(envelopes) THEN <<>>
    ELSE (IF type_set # <<>> /\ envelopes[i][field] \notin type_set[1]
          THEN <<>> ELSE <<envelopes[i]>>)
            \o KeepTypes(envelopes, i + 1, field, type_set)

\* Mutant: the read answers from the instance's dedup index, listing only the
\* ids the instance has indexed.
GetLatestDraftSignalsFromIndex(S, limit, start, end, entity_ref, sources, payload_types) ==
    IF limit <= 0 THEN [kind |-> "ok", out |-> <<>>]
    ELSE LET scan == IterSignals(S.signal_files, start, end, entity_ref, sources)
             Indexed(signal) == signal.signal_id \in DOMAIN S.signal_index.map
             signals == KeepTypes(SelectSeq(scan.out, Indexed), 1, "payload_type",
                                  FilterSet(payload_types))
         IN IF scan.kind # "ok" THEN scan
            ELSE [kind |-> "ok",
                  out |-> Take(Values(SortReverse(RecencyItems(signals, "signal_id"),
                                                  1, <<>>)), limit)]

\* get_latest_draft_signals
GetLatestDraftSignals(S, limit, start, end, entity_ref, sources, payload_types) ==
    IF limit <= 0 THEN [kind |-> "ok", out |-> <<>>]
    ELSE LET scan == IterSignals(S.signal_files, start, end, entity_ref, sources)
             signals == KeepTypes(scan.out, 1, "payload_type", FilterSet(payload_types))
         IN IF scan.kind # "ok" THEN scan
            ELSE [kind |-> "ok",
                  out |-> Take(Values(SortReverse(RecencyItems(signals, "signal_id"),
                                                  1, <<>>)), limit)]

\* get_latest_approval_outcomes
GetLatestApprovalOutcomes(S, limit, start, end, entity_ref, emission_types) ==
    IF limit <= 0 THEN [kind |-> "ok", out |-> <<>>]
    ELSE LET scan == IterEmissions(S.emission_files, start, end, entity_ref, emission_types)
         IN IF scan.kind # "ok" THEN scan
            ELSE [kind |-> "ok",
                  out |-> Take(Values(SortReverse(RecencyItems(scan.out, "emission_id"),
                                                  1, <<>>)), limit)]

\* isinstance(value, dict); isinstance(value, (int, float)), bool being an int.
IsDict(value) == value.type = "dict"
IsNumber(value) == value.type \in {"int", "float", "bool"}

\* payload.get(field, default)
PayloadGet(payload, field, default) ==
    IF field \in DOMAIN payload.value THEN payload.value[field] ELSE default

\* Mutant: the score is taken as it is, a number or not.
RECURSIVE CandidateItemsAnyScore(_, _, _, _)
CandidateItemsAnyScore(signals, i, payload_type_set, score_field) ==
    IF i > Len(signals) THEN <<>>
    ELSE LET signal == signals[i]
             raw_score == PayloadGet(signal.payload, score_field, Number(0))
             skip == \/ payload_type_set # <<>> /\ signal.payload_type \notin payload_type_set[1]
                     \/ ~IsDict(signal.payload)
         IN (IF skip THEN <<>>
             ELSE <<[key |-> <<raw_score.value, Instant(signal.timestamp),
                               IdRank(signal.signal_id)>>,
                     value |-> signal]>>)
                \o CandidateItemsAnyScore(signals, i + 1, payload_type_set, score_field)

\* get_top_recommendation_candidates, the loop that collects the candidates:
\* (float(raw_score), _ensure_utc(timestamp), signal_id, signal).
RECURSIVE CandidateItems(_, _, _, _)
CandidateItems(signals, i, payload_type_set, score_field) ==
    IF i > Len(signals) THEN <<>>
    ELSE LET signal == signals[i]
             raw_score == PayloadGet(signal.payload, score_field, Number(0))
             skip == \/ payload_type_set # <<>> /\ signal.payload_type \notin payload_type_set[1]
                     \/ ~IsDict(signal.payload)
                     \/ ~IsNumber(raw_score)
         IN (IF skip THEN <<>>
             ELSE <<[key |-> <<raw_score.value, Instant(signal.timestamp),
                               IdRank(signal.signal_id)>>,
                     value |-> signal]>>)
                \o CandidateItems(signals, i + 1, payload_type_set, score_field)

\* The key of the first entity ref, or the signal's own key.
EntityKey(signal) ==
    IF signal.entity_refs # <<>> THEN <<"ref", signal.entity_refs[1]>>
    ELSE <<"signal", signal.signal_id>>

\* Mutant: the key of a selected signal is not remembered.
RECURSIVE SelectUniqueForgetting(_, _, _, _, _)
SelectUniqueForgetting(candidates, i, limit, seen_entity_keys, selected) ==
    IF i > Len(candidates) THEN selected
    ELSE IF Len(selected) + 1 >= limit THEN Append(selected, candidates[i])
    ELSE SelectUniqueForgetting(candidates, i + 1, limit, seen_entity_keys,
                                Append(selected, candidates[i]))

\* get_top_recommendation_candidates, the selection loop.
RECURSIVE SelectUnique(_, _, _, _, _)
SelectUnique(candidates, i, limit, seen_entity_keys, selected) ==
    IF i > Len(candidates) THEN selected
    ELSE LET entity_key == EntityKey(candidates[i])
         IN IF entity_key \in seen_entity_keys
            THEN SelectUnique(candidates, i + 1, limit, seen_entity_keys, selected)
            ELSE IF Len(selected) + 1 >= limit THEN Append(selected, candidates[i])
            ELSE SelectUnique(candidates, i + 1, limit,
                              seen_entity_keys \cup {entity_key},
                              Append(selected, candidates[i]))

\* get_top_recommendation_candidates
GetTopRecommendationCandidates(S, start, end, limit, entity_ref, sources, payload_types, score_field, unique_by_entity) ==
    IF limit <= 0 THEN [kind |-> "ok", out |-> <<>>]
    ELSE LET scan == IterSignals(S.signal_files, start, end, entity_ref, sources)
             candidates == Values(SortReverse(
                              CandidateItems(scan.out, 1, FilterSet(payload_types),
                                             score_field), 1, <<>>))
         IN IF scan.kind # "ok" THEN scan
            ELSE IF ~unique_by_entity
            THEN [kind |-> "ok", out |-> Take(candidates, limit)]
            ELSE [kind |-> "ok",
                  out |-> SelectUnique(candidates, 1, limit, {}, <<>>)]

\* ------------------------------------------------------------- entity candidates and stage windows
RESOLVED_ENTITY_PAYLOAD_TYPES == {"EntityResolved", "EntityMerged", "EntityAliasAdded"}

\* Mutant: only the entity refs decide, the payload type is not looked at.
RECURSIVE KeepResolvedByRefsOnly(_, _, _)
KeepResolvedByRefsOnly(signals, i, resolved) ==
    IF i > Len(signals) THEN <<>>
    ELSE LET is_resolved == signals[i].entity_refs # <<>>
         IN (IF resolved = <<>> \/ is_resolved = resolved[1] THEN <<signals[i]>> ELSE <<>>)
                \o KeepResolvedByRefsOnly(signals, i + 1, resolved)

\* iter_entity_candidate_signals, the loop: resolved is None (<<>>) or <<bool>>.
RECURSIVE KeepResolved(_, _, _)
KeepResolved(signals, i, resolved) ==
    IF i > Len(signals) THEN <<>>
    ELSE LET is_resolved == \/ signals[i].entity_refs # <<>>
                            \/ signals[i].payload_type \in RESOLVED_ENTITY_PAYLOAD_TYPES
         IN (IF resolved = <<>> \/ is_resolved = resolved[1] THEN <<signals[i]>> ELSE <<>>)
                \o KeepResolved(signals, i + 1, resolved)

\* iter_entity_candidate_signals(start, end, resolved, sources)
IterEntityCandidateSignals(S, start, end, resolved, sources) ==
    LET scan == IterSignals(S.signal_files, start, end, <<>>, sources)
    IN [kind |-> scan.kind, out |-> KeepResolved(scan.out, 1, resolved)]

\* A source name is the sequence of its characters.  str.startswith(prefix)
StartsWith(text, prefix) ==
    /\ Len(prefix) <= Len(text)
    /\ SubSeq(text, 1, Len(prefix)) = prefix

\* Mutant: the prefix is the stage name without the dot.
RECURSIVE KeepStageByPlainPrefix(_, _, _, _, _)
KeepStageByPlainPrefix(signals, i, stage, source_set, payload_type_set) ==
    IF i > Len(signals) THEN <<>>
    ELSE LET signal == signals[i]
             skip == \/ /\ source_set = <<>>
                        /\ ~(signal.source = stage \/ StartsWith(signal.source, stage))
                     \/ /\ payload_type_set # <<>>
                        /\ signal.payload_type \notin payload_type_set[1]
         IN (IF skip THEN <<>> ELSE <<signal>>)
                \o KeepStageByPlainPrefix(signals, i + 1, stage, source_set, payload_type_set)

\* iter_stage_window_signals, the loop over the replayed signals.
RECURSIVE KeepStage(_, _, _, _, _)
KeepStage(signals, i, stage, source_set, payload_type_set) ==
    IF i > Len(signals) THEN <<>>
    ELSE LET signal == signals[i]
             stage_prefix == stage \o <<".">>
             skip == \/ /\ source_set = <<>>
                        /\ ~(signal.source = stage \/ StartsWith(signal.source, stage_prefix))
                     \/ /\ payload_type_set # <<>>
                        /\ signal.payload_type \notin payload_type_set[1]
         IN (IF skip THEN <<>> ELSE <<signal>>)
                \o KeepStage(signals, i + 1, stage, source_set, payload_type_set)

\* iter_stage_window_signals(stage, start, end, checkpoint, entity_ref, sources, payload_types)
IterStageWindowSignals(S, stage, start, end, checkpoint, entity_ref, sources, payload_types) ==
    LET replay == IterSignalsFromCheckpoint(S.signal_files, end, checkpoint, <<start>>,
                                            entity_ref, sources)
    IN [kind |-> replay.kind,
        out |-> KeepStage(replay.out, 1, stage, FilterSet(sources), FilterSet(payload_types))]

\* ------------------------------------------------------------- outcome windows
DEFAULT_PENDING_OUTCOME_PAYLOAD_TYPES ==
    {"OutcomePending", "EvaluationRequested", "RecommendationAttempted"}
DEFAULT_SUCCESS_EMISSION_TYPES == {"OutcomeSuccess", "DraftApproved"}
DEFAULT_FAILURE_EMISSION_TYPES == {"OutcomeFailure", "DraftRejected"}

\* set(values) if values else set(DEFAULT)
TypeSetOr(values, default) == IF FilterSet(values) = <<>> THEN default ELSE FilterSet(values)[1]

\* sorted(types) / list(types): a list of the set; the scans make a set of it again.
RECURSIVE AsList(_)
AsList(set) ==
    IF set = {} THEN <<>>
    ELSE LET x == CHOOSE x \in set : TRUE IN <<x>> \o AsList(set \ {x})

\* list.sort(key = ...): ascending by key, items of equal key keep their order.
RECURSIVE InsertAscending(_, _, _)
InsertAscending(sorted, item, i) ==
    IF i > Len(sorted) THEN Append(sorted, item)
    ELSE IF KeyLess(item.key, sorted[i].key, 1)
    THEN SubSeq(sorted, 1, i - 1) \o <<item>> \o SubSeq(sorted, i, Len(sorted))
    ELSE InsertAscending(sorted, item, i + 1)

RECURSIVE Sort(_, _, _)
Sort(items, i, acc) ==
    IF i > Len(items) THEN acc
    ELSE Sort(items, i + 1, InsertAscending(acc, items[i], 1))

\* resolved_caused_by: the caused_by of every emission the scan yields.
CausedBy(emissions) == {emissions[k].caused_by : k \in 1..Len(emissions)}

\* get_unresolved_outcome_signals, the loop over the signals.
RECURSIVE KeepUnresolved(_, _, _, _)
KeepUnresolved(signals, i, pending_types, resolved_caused_by) ==
    IF i > Len(signals) THEN <<>>
    ELSE (IF signals[i].payload_type \notin pending_types THEN <<>>
          ELSE IF signals[i].signal_id \in resolved_caused_by THEN <<>>
          ELSE <<signals[i]>>)
            \o KeepUnresolved(signals, i + 1, pending_types, resolved_caused_by)

\* get_unresolved_outcome_signals
GetUnresolvedOutcomeSignals(S, start, end, entity_ref, sources, pending_payload_types, success_emission_types, failure_emission_types) ==
    LET pending_types == TypeSetOr(pending_payload_types, DEFAULT_PENDING_OUTCOME_PAYLOAD_TYPES)
        success_types == TypeSetOr(success_emission_types, DEFAULT_SUCCESS_EMISSION_TYPES)
        failure_types == TypeSetOr(failure_emission_types, DEFAULT_FAILURE_EMISSION_TYPES)
        emissions == IterEmissions(S.emission_files, start, end, entity_ref,
                                   <<AsList(success_types \cup failure_types)>>)
        signals == IterSignals(S.signal_files, start, end, entity_ref, sources)
        unresolved == KeepUnresolved(signals.out, 1, pending_types, CausedBy(emissions.out))
    IN IF emissions.kind # "ok" THEN emissions
       ELSE IF signals.kind # "ok" THEN signals
       ELSE [kind |-> "ok",
             out |-> Values(Sort(RecencyItems(unresolved, "signal_id"), 1, <<>>))]

\* Mutant: a trailing Z is not rewritten to +00:00 before the text is parsed,
\* and fromisoformat rejects it.
ParseDatetimeWithoutZ(value) ==
    IF value.type # "str" THEN <<>>
    ELSE IF "offset" \notin DOMAIN value THEN <<>>
    ELSE IF value.offset = "Z" THEN <<>>
    ELSE <<EnsureUtc(FromIsoFormat([wall |-> value.value, offset |-> value.offset]))>>

\* _parse_datetime of a JSON value: None (<<>>) for what is no text or does not
\* parse, else the datetime in UTC.
ParseDatetime(value) ==
    IF value.type # "str" THEN <<>>
    ELSE IF "offset" \notin DOMAIN value THEN <<>>
    ELSE LET text == [wall |-> value.value,
                      offset |-> IF value.offset = "Z" THEN "+00:00" ELSE value.offset]
         IN <<EnsureUtc(FromIsoFormat(text))>>

\* get_expired_outcome_signals, the loop over the unresolved signals.
RECURSIVE KeepExpired(_, _, _, _)
KeepExpired(unresolved, i, now_utc, expires_at_field) ==
    IF i > Len(unresolved) THEN <<>>
    ELSE LET signal == unresolved[i]
             expires_at == ParseDatetime(PayloadGet(signal.payload, expires_at_field, Null))
         IN (IF ~IsDict(signal.payload) THEN <<>>
             ELSE IF expires_at = <<>> THEN <<>>
             ELSE IF expires_at[1].wall < now_utc.wall THEN <<signal>>
             ELSE <<>>)
                \o KeepExpired(unresolved, i + 1, now_utc, expires_at_field)

\* get_expired_outcome_signals
GetExpiredOutcomeSignals(S, now, start, end, entity_ref, sources, pending_payload_types, success_emission_types, failure_emission_types, expires_at_field) ==
    LET now_utc == EnsureUtc(now)
        unresolved == GetUnresolvedOutcomeSignals(S, start, end, entity_ref, sources,
                        pending_payload_types, success_emission_types, failure_emission_types)
        expired == KeepExpired(unresolved.out, 1, now_utc, expires_at_field)
    IN IF unresolved.kind # "ok" THEN unresolved
       ELSE [kind |-> "ok",
             out |-> Values(Sort(RecencyItems(expired, "signal_id"), 1, <<>>))]

\* iter_learning_emissions: iter_emissions under another name.
IterLearningEmissions(S, start, end, entity_ref, emission_types) ==
    IterEmissions(S.emission_files, start, end, entity_ref, emission_types)

\* Mutant: the expired signals are left in the pending bucket.
DropIdsKeepingAll(signals, i, ids) == signals

\* [signal for signal in unresolved if signal.signal_id not in expired_ids]
RECURSIVE DropIds(_, _, _)
DropIds(signals, i, ids) ==
    IF i > Len(signals) THEN <<>>
    ELSE (IF signals[i].signal_id \in ids THEN <<>> ELSE <<signals[i]>>)
            \o DropIds(signals, i + 1, ids)

NoBuckets == [pending |-> <<>>, expired |-> <<>>, success |-> <<>>, failure |-> <<>>]

\* get_outcome_window_buckets
GetOutcomeWindowBuckets(S, now, start, end, entity_ref, sources, pending_payload_types, success_emission_types, failure_emission_types, expires_at_field) ==
    LET success_types == TypeSetOr(success_emission_types, DEFAULT_SUCCESS_EMISSION_TYPES)
        failure_types == TypeSetOr(failure_emission_types, DEFAULT_FAILURE_EMISSION_TYPES)
        unresolved == GetUnresolvedOutcomeSignals(S, start, end, entity_ref, sources,
                        pending_payload_types, <<AsList(success_types)>>,
                        <<AsList(failure_types)>>)
        expired == GetExpiredOutcomeSignals(S, now, start, end, entity_ref, sources,
                        pending_payload_types, <<AsList(success_types)>>,
                        <<AsList(failure_types)>>, expires_at_field)
        expired_ids == {expired.out[k].signal_id : k \in 1..Len(expired.out)}
        pending == DropIds(unresolved.out, 1, expired_ids)
        success == IterLearningEmissions(S, start, end, entity_ref, <<AsList(success_types)>>)
        failure == IterLearningEmissions(S, start, end, entity_ref, <<AsList(failure_types)>>)
    IN IF unresolved.kind # "ok" THEN [kind |-> unresolved.kind, buckets |-> NoBuckets]
       ELSE [kind |-> "ok",
             buckets |->
                [pending |-> pending,
                 expired |-> expired.out,
                 success |-> Values(Sort(RecencyItems(success.out, "emission_id"), 1, <<>>)),
                 failure |-> Values(Sort(RecencyItems(failure.out, "emission_id"), 1, <<>>))]]

\* ------------------------------------------------------------- state
VARIABLES
    signal_files,     \* store/signals: day |-> the lines of <day>.jsonl
    emission_files,   \* store/emissions: day |-> the lines of <day>.jsonl
    signal_index,     \* _signal_index of the open instance
    emission_index,   \* _emission_index of the open instance
    ret,              \* the last call: its name, how it ended, the paths it
                      \* returned and the number of lines it appended
    history,          \* per class, the first successful write of each id, in call order
    inherited,        \* per class, the ids on disk when the open instance was constructed
    checkpoint,       \* a consumer's resume token: None (<<>>) or <<ReplayCheckpoint>>
    delivered,        \* the signal ids handed to that consumer, over all its passes
    processed_chunk,  \* the signals a worker hands to build_signal_checkpoint
    chunk_checkpoint, \* how that call ended: not made yet, or its result
    snapshot_files,   \* store/snapshots: file name |-> the document in it
    checkpoint_files, \* store/checkpoints: file name |-> the document in it
    written,          \* per snapshot / checkpoint file, what the last write was given
    peer,             \* a second instance open on the same workspace: its indexes and
                      \* the envelope its write is about to append
    interrupted,      \* a write_signal that ended inside its append and was not
                      \* repeated yet: <<>> or <<the signal and how far it came>>
    cursor,           \* a partly consumed iter_signals generator: <<>> or
                      \* <<its arguments, its position and what it yielded>>
    own_pending       \* a write of the open instance between its duplicate decision
                      \* and its append: <<>> or <<the envelope>>

vars == <<signal_files, emission_files, signal_index, emission_index,
          ret, history, inherited, checkpoint, delivered,
          processed_chunk, chunk_checkpoint,
          snapshot_files, checkpoint_files, written, peer, interrupted, cursor, own_pending>>

documents == <<snapshot_files, checkpoint_files, written>>
calls == <<interrupted, cursor, own_pending>>

Store ==
    [signal_files |-> signal_files, emission_files |-> emission_files,
     signal_index |-> signal_index, emission_index |-> emission_index]

\* All lines of a directory, partitions in day order.
RECURSIVE Concat(_, _, _)
Concat(files, partitions, i) ==
    IF i > Len(partitions) THEN <<>>
    ELSE files[partitions[i]] \o Concat(files, partitions, i + 1)

AllLines(files) == Concat(files, SortedPartitions(files), 1)
IdsOnDisk(files, id_field) == {AllLines(files)[k][id_field] : k \in 1..Len(AllLines(files))}
LinesOnDisk(S) == Len(AllLines(S.signal_files)) + Len(AllLines(S.emission_files))

\* The workspace holds at most MaxLines record lines.
HasRoom(S) == LinesOnDisk(S) <= MaxLines

\* The files and the indexes of the open instance become those of S.
Put(S) ==
    /\ signal_files' = S.signal_files
    /\ emission_files' = S.emission_files
    /\ signal_index' = S.signal_index
    /\ emission_index' = S.emission_index

SetStore(S) ==
    /\ HasRoom(S)
    /\ signal_files' = S.signal_files
    /\ emission_files' = S.emission_files
    /\ signal_index' = S.signal_index
    /\ emission_index' = S.emission_index

Returned(op, S, kind, paths) ==
    [op |-> op, kind |-> kind, paths |-> paths,
     appended |-> LinesOnDisk(S) - LinesOnDisk(Store)]

HistoryIds(h, id_field) == {h[k].envelope[id_field] : k \in 1..Len(h)}

\* The history after the writes of envelopes[1..n] returned paths[1..n].
RECURSIVE Remember(_, _, _, _, _)
Remember(h, id_field, envelopes, paths, i) ==
    IF i > Len(paths) THEN h
    ELSE Remember(
            IF envelopes[i][id_field] \in HistoryIds(h, id_field) THEN h
            ELSE Append(h, [envelope |-> envelopes[i], path |-> paths[i]]),
            id_field, envelopes, paths, i + 1)

\* build_signal_checkpoint has not been called.
NotCalled == [kind |-> "not called", checkpoint |-> <<>>]

\* FileSystemStore(workspace) on an empty workspace, no worker yet.
InitStore ==
    /\ signal_files = NoFiles
    /\ emission_files = NoFiles
    /\ signal_index = NoIndex
    /\ emission_index = NoIndex
    /\ ret = [op |-> "__init__", kind |-> "ok", paths |-> <<>>, appended |-> 0]
    /\ history = [signals |-> <<>>, emissions |-> <<>>]
    /\ inherited = [signals |-> {}, emissions |-> {}]
    /\ checkpoint = <<>>
    /\ delivered = <<>>
    /\ snapshot_files = NoFiles
    /\ checkpoint_files = NoFiles
    /\ written = NoFiles
    /\ peer = [signal_index |-> NoIndex, emission_index |-> NoIndex, pending |-> <<>>]
    /\ interrupted = <<>>
    /\ cursor = <<>>
    /\ own_pending = <<>>

Init ==
    /\ InitStore
    /\ processed_chunk = <<>>
    /\ chunk_checkpoint = NotCalled

WriteSignal(signal, on_duplicate) ==
    LET r == WriteSignalCall(Store, signal, on_duplicate)
    IN /\ SetStore(r.store)
       /\ ret' = Returned("write_signal", r.store, r.kind, r.path)
       /\ history' = [history EXCEPT
             !.signals = Remember(@, "signal_id", <<signal>>, r.path, 1)]
       /\ UNCHANGED <<inherited, calls, checkpoint, delivered, processed_chunk, chunk_checkpoint>>
       /\ UNCHANGED <<documents, peer>>

WriteEmission(emission, on_duplicate) ==
    LET r == WriteEmissionCall(Store, emission, on_duplicate)
    IN /\ SetStore(r.store)
       /\ ret' = Returned("write_emission", r.store, r.kind, r.path)
       /\ history' = [history EXCEPT
             !.emissions = Remember(@, "emission_id", <<emission>>, r.path, 1)]
       /\ UNCHANGED <<inherited, calls, checkpoint, delivered, processed_chunk, chunk_checkpoint>>
       /\ UNCHANGED <<documents, peer>>

WriteSignals(signals, on_duplicate) ==
    LET r == WriteSignalsCall(Store, signals, 1, on_duplicate, <<>>)
    IN /\ SetStore(r.store)
       /\ ret' = Returned("write_signals", r.store, r.kind, r.paths)
       /\ history' = [history EXCEPT
             !.signals = Remember(@, "signal_id", signals, r.partial, 1)]
       /\ UNCHANGED <<inherited, calls, checkpoint, delivered, processed_chunk, chunk_checkpoint>>
       /\ UNCHANGED <<documents, peer>>

WriteEmissions(emissions, on_duplicate) ==
    LET r == WriteEmissionsCall(Store, emissions, 1, on_duplicate, <<>>)
    IN /\ SetStore(r.store)
       /\ ret' = Returned("write_emissions", r.store, r.kind, r.paths)
       /\ history' = [history EXCEPT
             !.emissions = Remember(@, "emission_id", emissions, r.partial, 1)]
       /\ UNCHANGED <<inherited, calls, checkpoint, delivered, processed_chunk, chunk_checkpoint>>
       /\ UNCHANGED <<documents, peer>>

\* The instance is dropped and FileSystemStore(workspace) is constructed again
\* on the same workspace: the files stay, both indexes start unbuilt.
Reopen ==
    /\ signal_index' = NoIndex
    /\ emission_index' = NoIndex
    /\ UNCHANGED <<signal_files, emission_files, history, checkpoint, delivered,
                   processed_chunk, chunk_checkpoint>>
    /\ UNCHANGED <<documents, peer, calls>>
    /\ ret' = [op |-> "__init__", kind |-> "ok", paths |-> <<>>, appended |-> 0]
    /\ inherited' = [signals |-> IdsOnDisk(signal_files, "signal_id"),
                     emissions |-> IdsOnDisk(emission_files, "emission_id")]

\* Batches of up to MaxBatch envelopes.
BatchesOf(S) == UNION {[1..n -> S] : n \in 0..MaxBatch}

BatchSignals ==
    {SignalEnvelope("s1", [wall |-> 0, tz |-> "utc"], 1, "0.1"),
     SignalEnvelope("s2", [wall |-> 1, tz |-> "utc"], 2, "0.1"),
     SignalEnvelope("", [wall |-> 0, tz |-> "utc"], 1, "0.1")}
BatchEmissions ==
    {EmissionEnvelope("e1", [wall |-> 0, tz |-> "utc"], 1, "0.1"),
     EmissionEnvelope("", [wall |-> 0, tz |-> "utc"], 1, "0.1")}

Next ==
    \/ \E signal \in Signals, p \in Policies : WriteSignal(signal, p)
    \/ \E emission \in Emissions, p \in Policies : WriteEmission(emission, p)
    \/ \E signals \in BatchesOf(BatchSignals), p \in Policies : WriteSignals(signals, p)
    \/ \E emissions \in BatchesOf(BatchEmissions), p \in Policies : WriteEmissions(emissions, p)
    \/ Reopen

Spec == Init /\ [][Next]_vars

\* ------------------------------------------------------------- a store for readers
\* What the reads are checked on: every store valid writes can leave behind,
\* held by the instance that wrote it or by one opened on it afterwards.
IngestSignal(signal) == WriteSignal(signal, "return_existing")
IngestEmission(emission) == WriteEmission(emission, "return_existing")

NextReads ==
    \/ \E signal \in ValidSignals : IngestSignal(signal)
    \/ \E emission \in ValidEmissions : IngestEmission(emission)
    \/ Reopen

SpecReads == Init /\ [][NextReads]_vars

\* ------------------------------------------------------------- a store of recommendation candidates
\* Score workers write candidates: a score of 0.7 or 0.9, no score entry, a
\* text or a JSON true in its place, or a payload that is a list; no entity
\* ref, one, or two (the first is the primary one).
CandidateIds == {"s1", "s2", "s3"}
CandidateVariants ==
    {[payload |-> Dict([score |-> Number(70)]), entity_refs |-> <<"ent-a">>],
     [payload |-> Dict([score |-> Number(90)]), entity_refs |-> <<"ent-a">>],
     [payload |-> Dict([score |-> Number(70)]), entity_refs |-> <<"ent-b", "ent-a">>],
     [payload |-> Dict([score |-> Number(90)]), entity_refs |-> <<>>],
     [payload |-> Dict([status |-> Text]), entity_refs |-> <<"ent-a">>],
     [payload |-> Dict([status |-> Text]), entity_refs |-> <<>>],
     [payload |-> Dict([score |-> Text]), entity_refs |-> <<"ent-b", "ent-a">>],
     [payload |-> Dict([score |-> Bool(TRUE)]), entity_refs |-> <<>>],
     [payload |-> List, entity_refs |-> <<"ent-a">>]}
CandidateWalls(id) == CASE id = "s1" -> {0} [] id = "s3" -> {MaxWall} [] OTHER -> 0..MaxWall

CandidateSignals ==
    {[signal_id |-> id, timestamp |-> [wall |-> w, tz |-> "utc"],
      source |-> "score.worker", payload_type |-> "RecommendationCandidate",
      payload |-> v.payload, entity_refs |-> v.entity_refs, schema_version |-> "0.1"] :
        id \in CandidateIds, w \in 0..MaxWall, v \in CandidateVariants}

\* The workspace of the score workers holds at most MaxCandidates lines.
WriteCandidate(signal) ==
    LET r == WriteSignalCall(Store, signal, "return_existing")
    IN /\ signal.timestamp.wall \in CandidateWalls(signal.signal_id)
       /\ LinesOnDisk(r.store) <= MaxCandidates
       /\ Put(r.store)
       /\ ret' = Returned("write_signal", r.store, r.kind, r.path)
       /\ history' = [history EXCEPT
             !.signals = Remember(@, "signal_id", <<signal>>, r.path, 1)]
       /\ UNCHANGED <<inherited, calls, checkpoint, delivered, processed_chunk, chunk_checkpoint>>
       /\ UNCHANGED <<documents, peer>>

NextCandidates == \E signal \in CandidateSignals : WriteCandidate(signal)

SpecCandidates == Init /\ [][NextCandidates]_vars

\* ------------------------------------------------------------- a store of outcomes
\* Learning workers write signals that await an outcome, with an expiry in the
\* payload (a datetime text with Z, with an offset or without one, a text that
\* is no datetime, a number, or none), and evaluators write the emissions that
\* resolve them, naming the signal in caused_by (None is "").
OutcomeSignalVariants ==
    {[payload_type |-> "OutcomePending", entity_refs |-> <<"ent-1">>,
      payload |-> Dict([expires_at |-> IsoText(0, "Z")])],
     [payload_type |-> "OutcomePending", entity_refs |-> <<"ent-1">>,
      payload |-> Dict([expires_at |-> IsoText(MaxWall, "")])],
     [payload_type |-> "OutcomePending", entity_refs |-> <<>>,
      payload |-> Dict([expires_at |-> IsoText(MaxWall, "+12:00")])],
     [payload_type |-> "OutcomePending", entity_refs |-> <<>>,
      payload |-> Dict([expires_at |-> Text])],
     [payload_type |-> "OutcomePending", entity_refs |-> <<"ent-1">>,
      payload |-> Dict([note |-> Text])],
     [payload_type |-> "OutcomePending", entity_refs |-> <<>>,
      payload |-> Dict([expires_at |-> Number(0)])],
     [payload_type |-> "OutcomePending", entity_refs |-> <<>>, payload |-> List],
     [payload_type |-> "Synthetic", entity_refs |-> <<"ent-1">>,
      payload |-> Dict([expires_at |-> IsoText(0, "Z")])]}

OutcomeSignals ==
    {[signal_id |-> id, timestamp |-> [wall |-> w, tz |-> "utc"],
      source |-> "learning.worker", payload_type |-> v.payload_type,
      payload |-> v.payload, entity_refs |-> v.entity_refs, schema_version |-> "0.1"] :
        id \in SignalIds, w \in 0..MaxWall, v \in OutcomeSignalVariants}

OutcomeEmissionIds == {"e1", "e2"}
OutcomeEmissionVariants ==
    {[emission_type |-> "OutcomeSuccess", caused_by |-> "s1", entity_refs |-> <<>>],
     [emission_type |-> "OutcomeFailure", caused_by |-> "s2", entity_refs |-> <<"ent-1">>],
     [emission_type |-> "ScoresComputed", caused_by |-> "s1", entity_refs |-> <<"ent-1">>],
     [emission_type |-> "OutcomeSuccess", caused_by |-> "", entity_refs |-> <<>>]}

OutcomeEmissions ==
    {[emission_id |-> id, timestamp |-> [wall |-> w, tz |-> "utc"],
      emission_type |-> v.emission_type, payload |-> Dict([result |-> Text]),
      caused_by |-> v.caused_by, entity_refs |-> v.entity_refs,
      schema_version |-> "0.1"] :
        id \in OutcomeEmissionIds, w \in 0..MaxWall, v \in OutcomeEmissionVariants}

\* s2 is stamped at the first instant and e2 at the last one.
OutcomeWalls(id) == CASE id = "s2" -> {0} [] id = "e2" -> {MaxWall} [] OTHER -> 0..MaxWall

\* The workspace of the learning loop holds at most MaxOutcomes lines.
WriteOutcomeSignal(signal) ==
    LET r == WriteSignalCall(Store, signal, "return_existing")
    IN /\ signal.timestamp.wall \in OutcomeWalls(signal.signal_id)
       /\ LinesOnDisk(r.store) <= MaxOutcomes
       /\ Put(r.store)
       /\ ret' = Returned("write_signal", r.store, r.kind, r.path)
       /\ history' = [history EXCEPT
             !.signals = Remember(@, "signal_id", <<signal>>, r.path, 1)]
       /\ UNCHANGED <<inherited, calls, checkpoint, delivered, processed_chunk, chunk_checkpoint>>
       /\ UNCHANGED <<documents, peer>>

WriteOutcomeEmission(emission) ==
    LET r == WriteEmissionCall(Store, emission, "return_existing")
    IN /\ emission.timestamp.wall \in OutcomeWalls(emission.emission_id)
       /\ LinesOnDisk(r.store) <= MaxOutcomes
       /\ Put(r.store)
       /\ ret' = Returned("write_emission", r.store, r.kind, r.path)
       /\ history' = [history EXCEPT
             !.emissions = Remember(@, "emission_id", <<emission>>, r.path, 1)]
       /\ UNCHANGED <<inherited, calls, checkpoint, delivered, processed_chunk, chunk_checkpoint>>
       /\ UNCHANGED <<documents, peer>>

NextOutcomes ==
    \/ \E signal \in OutcomeSignals : WriteOutcomeSignal(signal)
    \/ \E emission \in OutcomeEmissions : WriteOutcomeEmission(emission)

SpecOutcomes == Init /\ [][NextOutcomes]_vars

\* ------------------------------------------------------------- a store of staged workers
\* Chained workers write under their stage name (route, route.w), another
\* stage whose name begins alike (router.x) or an unrelated one (score.w);
\* resolver signals carry a resolver payload type or entity refs.
Route == <<"r", "o", "u", "t", "e">>
RouteWorker == <<"r", "o", "u", "t", "e", ".", "w">>
RouterX == <<"r", "o", "u", "t", "e", "r", ".", "x">>
ScoreWorker == <<"s", "c", "o", "r", "e", ".", "w">>

StageVariants ==
    {[source |-> Route, payload_type |-> "RouteInput", entity_refs |-> <<>>],
     [source |-> RouteWorker, payload_type |-> "RouteInput", entity_refs |-> <<"ent-1">>],
     [source |-> RouterX, payload_type |-> "RouteInput", entity_refs |-> <<>>],
     [source |-> RouteWorker, payload_type |-> "EntityResolved", entity_refs |-> <<>>],
     [source |-> RouteWorker, payload_type |-> "Synthetic", entity_refs |-> <<>>],
     [source |-> ScoreWorker, payload_type |-> "EntityMerged", entity_refs |-> <<"ent-1">>],
     [source |-> ScoreWorker, payload_type |-> "EntityAliasAdded", entity_refs |-> <<>>],
     [source |-> RouterX, payload_type |-> "Synthetic", entity_refs |-> <<"ent-1">>]}

StageSignals ==
    {[signal_id |-> id, timestamp |-> [wall |-> w, tz |-> "utc"],
      source |-> v.source, payload_type |-> v.payload_type,
      payload |-> Dict([note |-> Text]), entity_refs |-> v.entity_refs,
      schema_version |-> "0.1"] :
        id \in CandidateIds, w \in 0..MaxWall, v \in StageVariants}

\* The workspace of the chained workers holds at most MaxStaged lines.
WriteStaged(signal) ==
    LET r == WriteSignalCall(Store, signal, "return_existing")
    IN /\ signal.timestamp.wall \in CandidateWalls(signal.signal_id)
       /\ LinesOnDisk(r.store) <= MaxStaged
       /\ Put(r.store)
       /\ ret' = Returned("write_signal", r.store, r.kind, r.path)
       /\ history' = [history EXCEPT
             !.signals = Remember(@, "signal_id", <<signal>>, r.path, 1)]
       /\ UNCHANGED <<inherited, calls, checkpoint, delivered, processed_chunk, chunk_checkpoint>>
       /\ UNCHANGED <<documents, peer>>

NextStages == \E signal \in StageSignals : WriteStaged(signal)

SpecStages == Init /\ [][NextStages]_vars

\* ------------------------------------------------------------- snapshot documents
\* What a caller may pass as a day: a pre-formatted token, a date or a datetime.
SnapshotDays == {DateOf(EnsureUtc(stamp)) : stamp \in Stamps}
DayArguments ==
    [kind : {"str", "date"}, value : SnapshotDays] \cup [kind : {"datetime"}, value : Stamps]

\* Mutant: a datetime gives the calendar day of its own wall-clock reading.
NormalizeDayByWallDate(day) ==
    IF day.kind = "datetime" THEN DateOf(day.value) ELSE day.value

\* _normalize_day: a str is the token as it is, a datetime gives the ISO date
\* of its UTC reading, a date its ISO date.
NormalizeDay(day) ==
    CASE day.kind = "str" -> day.value
      [] day.kind = "datetime" -> DateOf(EnsureUtc(day.value))
      [] OTHER -> day.value

\* Mutant: the file is opened for appending, a second document follows the first.
WriteDocumentAppending(files, destination, payload) ==
    IF Exists(files, destination)
    THEN [files EXCEPT ![destination] = Append(@, payload)]
    ELSE files @@ (destination :> <<payload>>)

\* destination.open("w"); json.dump(payload, sort_keys=True, separators);
\* write("\n"): the file holds this one document, whatever it held before.
WriteDocument(files, destination, payload) ==
    IF Exists(files, destination)
    THEN [files EXCEPT ![destination] = <<payload>>]
    ELSE files @@ (destination :> <<payload>>)

\* json.load(handle): one document, or JSONDecodeError when more text follows it.
JsonLoad(handle) ==
    IF Len(handle) = 1
    THEN [kind |-> "ok", value |-> <<handle[1]>>]
    ELSE [kind |-> "JSONDecodeError", value |-> <<>>]

\* snapshots_dir / f"digest__{day_token}.json"
DigestPath(day_token) == [family |-> "digest", day |-> day_token]
\* snapshots_dir / f"calibration__{day_token}.json"
CalibrationPath(day_token) == [family |-> "calibration", day |-> day_token]

WriteDailyDigestSnapshotCall(files, day, digest) ==
    LET day_token == NormalizeDay(day)
        destination == DigestPath(day_token)
        payload == [day |-> day_token, digest |-> digest, schema_version |-> "0.1"]
    IN [kind |-> "ok", path |-> destination,
        files |-> WriteDocument(files, destination, payload)]

\* None is <<>>.
ReadDailyDigestSnapshotCall(files, day) ==
    LET path == DigestPath(NormalizeDay(day))
    IN IF ~Exists(files, path) THEN [kind |-> "ok", value |-> <<>>]
       ELSE JsonLoad(files[path])

WriteCalibrationSnapshotCall(files, day, report) ==
    LET day_token == NormalizeDay(day)
        destination == CalibrationPath(day_token)
        payload == [day |-> day_token, report |-> report, schema_version |-> "0.1"]
    IN [kind |-> "ok", path |-> destination,
        files |-> WriteDocument(files, destination, payload)]

ReadCalibrationSnapshotCall(files, day) ==
    LET path == CalibrationPath(NormalizeDay(day))
    IN IF ~Exists(files, path) THEN [kind |-> "ok", value |-> <<>>]
       ELSE JsonLoad(files[path])

\* snapshots_dir / f"{name}__{timestamp_token}.json": the token is the UTC
\* reading of the time to the second with a trailing Z, never a day token.
SnapshotPath(name, ts) == [family |-> name, time |-> ts.wall]

\* write_snapshot(name, snapshot_state, snapshot_time); None (<<>>) stands for
\* the clock reading `now`.  The file holds the state itself.
WriteSnapshotCall(files, name, snapshot_state, snapshot_time, now) ==
    LET ts == EnsureUtc(IF snapshot_time # <<>> THEN snapshot_time[1] ELSE now)
        destination == SnapshotPath(name, ts)
    IN [kind |-> "ok", path |-> destination,
        files |-> WriteDocument(files, destination, snapshot_state)]

\* The UTC calendar day a day argument stands for.
DayMeant(day) ==
    IF day.kind = "datetime" THEN Instant(day.value) \div TicksPerDay ELSE day.value

\* A datetime whose own calendar day is not the UTC day it stands for.
Zoned(day) == day.kind = "datetime" /\ DateOf(day.value) # DayMeant(day)

\* Per family and day: the payload of the last write, every path returned,
\* whether a write replaced another payload and whether one gave a zoned datetime.
Wrote(family, day, payload, path) ==
    LET key == [family |-> family, day |-> DayMeant(day)]
    IN IF key \in DOMAIN written
       THEN [written EXCEPT ![key] =
                [payload |-> payload, paths |-> @.paths \cup {path},
                 replaced |-> @.replaced \/ @.payload # payload,
                 zoned |-> @.zoned \/ Zoned(day)]]
       ELSE written @@ (key :> [payload |-> payload, paths |-> {path},
                                replaced |-> FALSE, zoned |-> Zoned(day)])

\* The digests and reports of the model: two JSON objects.
SnapshotPayloads == {SignalVariant(n).payload : n \in 1..MaxBatch}

WriteDailyDigestSnapshot(day, digest) ==
    LET r == WriteDailyDigestSnapshotCall(snapshot_files, day, digest)
    IN /\ snapshot_files' = r.files
       /\ written' = Wrote("digest", day, digest, r.path)
       /\ ret' = [op |-> "write_daily_digest_snapshot", kind |-> r.kind,
                  paths |-> <<r.path>>, appended |-> 0]
       /\ UNCHANGED <<signal_files, emission_files, signal_index, emission_index,
                      history, inherited, calls, checkpoint, delivered,
                      processed_chunk, chunk_checkpoint, checkpoint_files, peer>>

WriteCalibrationSnapshot(day, report) ==
    LET r == WriteCalibrationSnapshotCall(snapshot_files, day, report)
    IN /\ snapshot_files' = r.files
       /\ written' = Wrote("calibration", day, report, r.path)
       /\ ret' = [op |-> "write_calibration_snapshot", kind |-> r.kind,
                  paths |-> <<r.path>>, appended |-> 0]
       /\ UNCHANGED <<signal_files, emission_files, signal_index, emission_index,
                      history, inherited, calls, checkpoint, delivered,
                      processed_chunk, chunk_checkpoint, checkpoint_files, peer>>

\* The names, times and clock readings write_snapshot is called with.
SnapshotNames == {"system_state", "digest"}
SnapshotTimes == {<<>>, <<[wall |-> MaxWall, tz |-> "plus"]>>}
SnapshotClock == {[wall |-> MaxWall, tz |-> "utc"]}
TimedFiles(files) == {path \in DOMAIN files : "time" \in DOMAIN path}

WriteSnapshot(name, snapshot_state, snapshot_time, now) ==
    LET r == WriteSnapshotCall(snapshot_files, name, snapshot_state, snapshot_time, now)
    IN /\ Cardinality(TimedFiles(r.files)) <= MaxSnapshots
       /\ snapshot_files' = r.files
       /\ ret' = [op |-> "write_snapshot", kind |-> r.kind,
                  paths |-> <<r.path>>, appended |-> 0]
       /\ UNCHANGED <<signal_files, emission_files, signal_index, emission_index,
                      history, inherited, calls, checkpoint, delivered,
                      processed_chunk, chunk_checkpoint, checkpoint_files, written, peer>>

NextSnapshots ==
    \/ \E name \in SnapshotNames, state \in SnapshotPayloads,
          time \in SnapshotTimes, now \in SnapshotClock :
            WriteSnapshot(name, state, time, now)
    \/ \E day \in DayArguments, digest \in SnapshotPayloads :
            WriteDailyDigestSnapshot(day, digest)
    \/ \E day \in DayArguments, report \in SnapshotPayloads :
            WriteCalibrationSnapshot(day, report)

SpecSnapshots == Init /\ [][NextSnapshots]_vars

\* ------------------------------------------------------------- checkpoint documents
\* Mutant: the ids seen at the timestamp are not taken from the document.
CheckpointFromDictWithoutIds(data) ==
    LET timestamp_text ==
            IF data.last_timestamp.offset = "Z"
            THEN [data.last_timestamp EXCEPT !.offset = "+00:00"]
            ELSE data.last_timestamp
    IN [ReplayCheckpoint(FromIsoFormat(timestamp_text), <<>>)
            EXCEPT !.schema_version = data.schema_version]

\* ReplayCheckpoint.to_dict: isoformat().replace("+00:00", "Z"), the ids as a list.
CheckpointToDict(cp) ==
    LET text == IsoFormat(cp.last_timestamp)
    IN [last_timestamp |->
            IF text.offset = "+00:00" THEN [text EXCEPT !.offset = "Z"] ELSE text,
        seen_ids_at_timestamp |-> cp.seen_ids_at_timestamp,
        schema_version |-> cp.schema_version]

\* ReplayCheckpoint.from_dict: a trailing Z becomes +00:00, fromisoformat, and
\* the constructor normalises the timestamp and the ids again.
CheckpointFromDict(data) ==
    LET timestamp_text ==
            IF data.last_timestamp.offset = "Z"
            THEN [data.last_timestamp EXCEPT !.offset = "+00:00"]
            ELSE data.last_timestamp
    IN [ReplayCheckpoint(FromIsoFormat(timestamp_text), data.seen_ids_at_timestamp)
            EXCEPT !.schema_version = data.schema_version]

\* checkpoints_dir / f"{name}.json"
CheckpointPath(name) == name

WriteCheckpointCall(files, name, cp) ==
    LET destination == CheckpointPath(name)
    IN [kind |-> "ok", path |-> destination,
        files |-> WriteDocument(files, destination, CheckpointToDict(cp))]

\* write_checkpoint(name, None): the file is opened for writing, and so made
\* or emptied, before None.to_dict() raises AttributeError.
WriteCheckpointCallOfNone(files, name) ==
    LET destination == CheckpointPath(name)
    IN [kind |-> "AttributeError", path |-> destination,
        files |-> IF Exists(files, destination)
                  THEN [files EXCEPT ![destination] = <<>>]
                  ELSE files @@ (destination :> <<>>)]

\* None is <<>>.
ReadCheckpointCall(files, name) ==
    LET source == CheckpointPath(name)
    IN IF ~Exists(files, source) THEN [kind |-> "ok", value |-> <<>>]
       ELSE LET data == JsonLoad(files[source])
            IN IF data.kind # "ok" THEN data
               ELSE [kind |-> "ok", value |-> <<CheckpointFromDict(data.value[1])>>]

\* The workers that keep a checkpoint, and the checkpoints they hold: any
\* timestamp, up to MaxBatch ids in any order, either schema version.
CheckpointNames == {"ingestion_worker", "score_worker"}
SchemaVersions == {"0.1", "0.2"}
SeenIdLists == UNION {[1..n -> SignalIds] : n \in 0..MaxBatch}
ReplayCheckpoints ==
    {[ReplayCheckpoint(ts, ids) EXCEPT !.schema_version = sv] :
        ts \in Stamps, ids \in SeenIdLists, sv \in SchemaVersions}

\* The record of the checkpoints written: the last one under each name, and
\* whether a different one had been there before.
Recorded(w, name, cp) ==
    IF name \in DOMAIN w
    THEN [w EXCEPT ![name] = [payload |-> cp, replaced |-> @.replaced \/ @.payload # cp]]
    ELSE w @@ (name :> [payload |-> cp, replaced |-> FALSE])

WriteCheckpoint(name, cp) ==
    LET r == WriteCheckpointCall(checkpoint_files, name, cp)
    IN /\ checkpoint_files' = r.files
       /\ written' = Recorded(written, name, cp)
       /\ ret' = [op |-> "write_checkpoint", kind |-> r.kind,
                  paths |-> <<r.path>>, appended |-> 0]
       /\ UNCHANGED <<signal_files, emission_files, signal_index, emission_index,
                      history, inherited, calls, checkpoint, delivered,
                      processed_chunk, chunk_checkpoint, snapshot_files, peer>>

NextCheckpointFiles ==
    \E name \in CheckpointNames, cp \in ReplayCheckpoints : WriteCheckpoint(name, cp)

SpecCheckpointFiles == Init /\ [][NextCheckpointFiles]_vars

\* ------------------------------------------------------------- two writers
\* Two FileSystemStore instances share the workspace.  Nothing keeps one out
\* while the other is inside a write: a write of either instance is taken in
\* two steps, so that calls of the other can fall between its duplicate
\* decision and its append.
PeerStore ==
    [signal_files |-> signal_files, emission_files |-> emission_files,
     signal_index |-> peer.signal_index, emission_index |-> peer.emission_index]

RacedStamps == {ts \in Stamps : ts.tz # "naive" /\ ts.wall = 0}
RacedSignals == {SignalEnvelope(id, ts, ts.wall + 1, "0.1") : id \in SignalIds, ts \in RacedStamps}
RacedEmissions ==
    {EmissionEnvelope(id, ts, ts.wall + 1, "0.1") :
        id \in OutcomeEmissionIds, ts \in {rs \in RacedStamps : rs.tz = "utc"}}

\* write_signal of the open instance up to its duplicate decision; the call
\* returns here when the id is in its index.
OwnWriteSignalCheck(signal) ==
    LET r == WriteSignalCheck(Store, signal, "return_existing")
    IN /\ own_pending = <<>>
       /\ Put(r.store)
       /\ own_pending' = r.pending
       /\ ret' = IF r.pending # <<>> THEN ret
                 ELSE Returned("write_signal", Store, r.kind, r.path)
       /\ UNCHANGED <<history, inherited, interrupted, cursor, checkpoint, delivered,
                      processed_chunk, chunk_checkpoint>>
       /\ UNCHANGED <<documents, peer>>

\* write_signal of the open instance from the append on.
OwnWriteSignalAppend ==
    /\ own_pending # <<>>
    /\ "signal_id" \in DOMAIN own_pending[1]
    /\ LET r == WriteSignalAppend(Store, own_pending[1])
       IN /\ LinesOnDisk(r.store) <= MaxRaced
          /\ Put(r.store)
          /\ ret' = Returned("write_signal", r.store, r.kind, r.path)
          /\ history' = [history EXCEPT !.signals =
                            Remember(@, "signal_id", own_pending, r.path, 1)]
    /\ own_pending' = <<>>
    /\ UNCHANGED <<inherited, interrupted, cursor, checkpoint, delivered,
                   processed_chunk, chunk_checkpoint>>
    /\ UNCHANGED <<documents, peer>>

\* write_emission of the open instance up to its duplicate decision.
OwnWriteEmissionCheck(emission) ==
    LET r == WriteEmissionCheck(Store, emission, "return_existing")
    IN /\ own_pending = <<>>
       /\ Put(r.store)
       /\ own_pending' = r.pending
       /\ ret' = IF r.pending # <<>> THEN ret
                 ELSE Returned("write_emission", Store, r.kind, r.path)
       /\ UNCHANGED <<history, inherited, interrupted, cursor, checkpoint, delivered,
                      processed_chunk, chunk_checkpoint>>
       /\ UNCHANGED <<documents, peer>>

\* write_emission of the open instance from the append on.
OwnWriteEmissionAppend ==
    /\ own_pending # <<>>
    /\ "emission_id" \in DOMAIN own_pending[1]
    /\ LET r == WriteEmissionAppend(Store, own_pending[1])
       IN /\ LinesOnDisk(r.store) <= MaxRaced
          /\ Put(r.store)
          /\ ret' = Returned("write_emission", r.store, r.kind, r.path)
          /\ history' = [history EXCEPT !.emissions =
                            Remember(@, "emission_id", own_pending, r.path, 1)]
    /\ own_pending' = <<>>
    /\ UNCHANGED <<inherited, interrupted, cursor, checkpoint, delivered,
                   processed_chunk, chunk_checkpoint>>
    /\ UNCHANGED <<documents, peer>>

\* The peer's write_signal decides on the duplicate; it returns here when the
\* id is in its index.
PeerWriteSignalCheck(signal) ==
    LET r == WriteSignalCheck(PeerStore, signal, "return_existing")
    IN /\ peer.pending = <<>>
       /\ peer' = [signal_index |-> r.store.signal_index,
                   emission_index |-> r.store.emission_index,
                   pending |-> r.pending]
       /\ ret' = IF r.pending # <<>> THEN ret
                 ELSE Returned("write_signal", Store, r.kind, r.path)
       /\ UNCHANGED <<signal_files, emission_files, signal_index, emission_index,
                      history, inherited, calls, checkpoint, delivered,
                      processed_chunk, chunk_checkpoint, documents>>

\* The peer's write_signal appends and returns.
PeerWriteSignalAppend ==
    /\ peer.pending # <<>>
    /\ "signal_id" \in DOMAIN peer.pending[1]
    /\ LET r == WriteSignalAppend(PeerStore, peer.pending[1])
       IN /\ LinesOnDisk(r.store) <= MaxRaced
          /\ signal_files' = r.store.signal_files
          /\ peer' = [signal_index |-> r.store.signal_index,
                      emission_index |-> r.store.emission_index,
                      pending |-> <<>>]
          /\ ret' = Returned("write_signal", r.store, r.kind, r.path)
          /\ history' = [history EXCEPT !.signals =
                            Remember(@, "signal_id", peer.pending, r.path, 1)]
    /\ UNCHANGED <<emission_files, signal_index, emission_index,
                   inherited, calls, checkpoint, delivered,
                   processed_chunk, chunk_checkpoint, documents>>

\* The peer's write_emission decides on the duplicate; it returns here when
\* the id is in its index.
PeerWriteEmissionCheck(emission) ==
    LET r == WriteEmissionCheck(PeerStore, emission, "return_existing")
    IN /\ peer.pending = <<>>
       /\ peer' = [signal_index |-> r.store.signal_index,
                   emission_index |-> r.store.emission_index,
                   pending |-> r.pending]
       /\ ret' = IF r.pending # <<>> THEN ret
                 ELSE Returned("write_emission", Store, r.kind, r.path)
       /\ UNCHANGED <<signal_files, emission_files, signal_index, emission_index,
                      history, inherited, calls, checkpoint, delivered,
                      processed_chunk, chunk_checkpoint, documents>>

\* The peer's write_emission appends and returns.
PeerWriteEmissionAppend ==
    /\ peer.pending # <<>>
    /\ "emission_id" \in DOMAIN peer.pending[1]
    /\ LET r == WriteEmissionAppend(PeerStore, peer.pending[1])
       IN /\ LinesOnDisk(r.store) <= MaxRaced
          /\ emission_files' = r.store.emission_files
          /\ peer' = [signal_index |-> r.store.signal_index,
                      emission_index |-> r.store.emission_index,
                      pending |-> <<>>]
          /\ ret' = Returned("write_emission", r.store, r.kind, r.path)
          /\ history' = [history EXCEPT !.emissions =
                            Remember(@, "emission_id", peer.pending, r.path, 1)]
    /\ UNCHANGED <<signal_files, signal_index, emission_index,
                   inherited, calls, checkpoint, delivered,
                   processed_chunk, chunk_checkpoint, documents>>

NextTwoWriters ==
    \/ \E signal \in RacedSignals : OwnWriteSignalCheck(signal)
    \/ OwnWriteSignalAppend
    \/ \E emission \in RacedEmissions : OwnWriteEmissionCheck(emission)
    \/ OwnWriteEmissionAppend
    \/ \E signal \in RacedSignals : PeerWriteSignalCheck(signal)
    \/ PeerWriteSignalAppend
    \/ \E emission \in RacedEmissions : PeerWriteEmissionCheck(emission)
    \/ PeerWriteEmissionAppend

SpecTwoWriters == Init /\ [][NextTwoWriters]_vars

\* ------------------------------------------------------------- damaged files
\* The partition files are plain text that other programs can reach: an editor,
\* a copy tool or an interrupted writer leaves an empty line, or a line that is
\* not JSON, at the end of a file.  The store writes, is reopened and scans on
\* top of that.
DamagedStamps == {[wall |-> 0, tz |-> "plus"], [wall |-> 0, tz |-> "utc"]}
DamagedSignals == {SignalEnvelope(id, ts, 1, "0.1") : id \in SignalIds, ts \in DamagedStamps}
DamagedEmissions == {EmissionEnvelope(id, ts, 1, "0.1") : id \in EmissionIds, ts \in DamagedStamps}
DamagedDays == {Destination(ts) : ts \in DamagedStamps}
ForeignLines == {BlankLine, CorruptLine}

DamagedWriteSignal(signal, on_duplicate) ==
    LET r == WriteSignalCall(Store, signal, on_duplicate)
    IN /\ LinesOnDisk(r.store) <= MaxDamaged
       /\ Put(r.store)
       /\ ret' = Returned("write_signal", r.store, r.kind, r.path)
       /\ history' = [history EXCEPT !.signals = Remember(@, "signal_id", <<signal>>, r.path, 1)]
       /\ UNCHANGED <<inherited, calls, checkpoint, delivered, processed_chunk, chunk_checkpoint>>
       /\ UNCHANGED <<documents, peer>>

DamagedWriteEmission(emission, on_duplicate) ==
    LET r == WriteEmissionCall(Store, emission, on_duplicate)
    IN /\ LinesOnDisk(r.store) <= MaxDamaged
       /\ Put(r.store)
       /\ ret' = Returned("write_emission", r.store, r.kind, r.path)
       /\ history' = [history EXCEPT !.emissions = Remember(@, "emission_id", <<emission>>, r.path, 1)]
       /\ UNCHANGED <<inherited, calls, checkpoint, delivered, processed_chunk, chunk_checkpoint>>
       /\ UNCHANGED <<documents, peer>>

\* A line the store did not write lands at the end of a partition file.
ForeignSignalLine(day, line) ==
    /\ LinesOnDisk(Store) < MaxDamaged
    /\ signal_files' = [OpenAppend(signal_files, day) EXCEPT ![day] = WriteForeign(@, line)]
    /\ ret' = [op |-> "foreign", kind |-> "ok", paths |-> <<>>, appended |-> 1]
    /\ UNCHANGED <<emission_files, signal_index, emission_index, history, inherited, calls,
                   checkpoint, delivered, processed_chunk, chunk_checkpoint>>
    /\ UNCHANGED <<documents, peer>>

ForeignEmissionLine(day, line) ==
    /\ LinesOnDisk(Store) < MaxDamaged
    /\ emission_files' = [OpenAppend(emission_files, day) EXCEPT ![day] = WriteForeign(@, line)]
    /\ ret' = [op |-> "foreign", kind |-> "ok", paths |-> <<>>, appended |-> 1]
    /\ UNCHANGED <<signal_files, signal_index, emission_index, history, inherited, calls,
                   checkpoint, delivered, processed_chunk, chunk_checkpoint>>
    /\ UNCHANGED <<documents, peer>>

\* FileSystemStore(workspace) is constructed again: both indexes start unbuilt.
ReopenDamaged ==
    /\ signal_index' = NoIndex
    /\ emission_index' = NoIndex
    /\ ret' = [op |-> "__init__", kind |-> "ok", paths |-> <<>>, appended |-> 0]
    /\ UNCHANGED <<signal_files, emission_files, history, inherited, calls,
                   checkpoint, delivered, processed_chunk, chunk_checkpoint>>
    /\ UNCHANGED <<documents, peer>>

NextDamaged ==
    \/ \E signal \in DamagedSignals, p \in {"return_existing", "raise"} : DamagedWriteSignal(signal, p)
    \/ \E emission \in DamagedEmissions, p \in {"return_existing", "raise"} : DamagedWriteEmission(emission, p)
    \/ \E day \in DamagedDays, line \in ForeignLines : ForeignSignalLine(day, line)
    \/ \E day \in DamagedDays, line \in ForeignLines : ForeignEmissionLine(day, line)
    \/ ReopenDamaged

SpecDamaged == Init /\ [][NextDamaged]_vars

\* ------------------------------------------------------------- an interrupted write
\* One write_signal of a behaviour ends inside its append.  The caller repeats
\* the same call, on the same instance or, after the workspace is reopened, on
\* a fresh one; other writes come before and after.
InterruptedSignals == {SignalEnvelope(id, ts, 1, "0.1") : id \in SignalIds, ts \in DamagedStamps}

InterruptWriteSignal(signal, step) ==
    LET r == WriteSignalInterrupted(Store, signal, "return_existing", step)
    IN /\ interrupted = <<>>
       /\ r.kind = "interrupted"
       /\ LinesOnDisk(r.store) <= MaxInterrupted
       /\ Put(r.store)
       /\ interrupted' = <<[signal |-> signal, step |-> step, fresh |-> FALSE,
                            retried |-> <<>>]>>
       /\ ret' = Returned("write_signal", r.store, r.kind, r.path)
       /\ UNCHANGED <<history, inherited, cursor, own_pending, checkpoint, delivered,
                      processed_chunk, chunk_checkpoint>>
       /\ UNCHANGED <<documents, peer>>

\* The same write_signal call is made again.
RetryWriteSignal ==
    /\ interrupted # <<>> /\ interrupted[1].retried = <<>>
    /\ LET r == WriteSignalCall(Store, interrupted[1].signal, "return_existing")
       IN /\ LinesOnDisk(r.store) <= MaxInterrupted + 1
          /\ Put(r.store)
          /\ interrupted' = <<[interrupted[1] EXCEPT !.retried = <<r.kind>>]>>
          /\ ret' = Returned("write_signal", r.store, r.kind, r.path)
          /\ history' = [history EXCEPT !.signals =
                Remember(@, "signal_id", <<interrupted[1].signal>>, r.path, 1)]
    /\ UNCHANGED <<inherited, cursor, own_pending, checkpoint, delivered, processed_chunk, chunk_checkpoint>>
    /\ UNCHANGED <<documents, peer>>

\* A write_signal that runs to its end; not while a repeat is due.
WholeWriteSignal(signal) ==
    LET r == WriteSignalCall(Store, signal, "return_existing")
    IN /\ IF interrupted = <<>> THEN TRUE ELSE interrupted[1].retried # <<>>
       /\ LinesOnDisk(r.store) <= MaxInterrupted + 1
       /\ Put(r.store)
       /\ ret' = Returned("write_signal", r.store, r.kind, r.path)
       /\ history' = [history EXCEPT !.signals = Remember(@, "signal_id", <<signal>>, r.path, 1)]
       /\ UNCHANGED <<inherited, calls, checkpoint, delivered, processed_chunk, chunk_checkpoint>>
       /\ UNCHANGED <<documents, peer>>

\* The process ends and FileSystemStore(workspace) is constructed again.
ReopenInterrupted ==
    /\ signal_index' = NoIndex
    /\ emission_index' = NoIndex
    /\ interrupted' = IF interrupted # <<>> /\ interrupted[1].retried = <<>>
                      THEN <<[interrupted[1] EXCEPT !.fresh = TRUE]>>
                      ELSE interrupted
    /\ ret' = [op |-> "__init__", kind |-> "ok", paths |-> <<>>, appended |-> 0]
    /\ UNCHANGED <<signal_files, emission_files, history, inherited, cursor, own_pending,
                   checkpoint, delivered, processed_chunk, chunk_checkpoint>>
    /\ UNCHANGED <<documents, peer>>

NextInterrupted ==
    \/ \E signal \in InterruptedSignals, step \in InterruptedSteps : InterruptWriteSignal(signal, step)
    \/ RetryWriteSignal
    \/ \E signal \in InterruptedSignals : WholeWriteSignal(signal)
    \/ ReopenInterrupted

SpecInterrupted == Init /\ [][NextInterrupted]_vars

\* ------------------------------------------------------------- a scan in progress
\* A caller holds one iter_signals generator and takes its elements one at a
\* time; between two elements the store is written to, by the instance that is
\* open or, after a reopen, by the next one.
LazyIds == SignalIds \cup {"s3"}
LazySignals == {SignalEnvelope(id, ts, 1, "0.1") : id \in LazyIds, ts \in DamagedStamps}
LazyStamps == [wall : (0 - TicksPerDay)..MaxWall, tz : {"utc"}]
LazyRanges == LazyStamps \X LazyStamps

\* gen = store.iter_signals(start, end); `at_call` keeps the files of that
\* moment, `interleaved` counts the appends made between two elements.
StartScan(start, end) ==
    /\ cursor = <<>>
    /\ cursor' = <<[gen |-> IterSignalsLazy(start, end, <<>>, <<>>),
                    at_call |-> signal_files, interleaved |-> 0]>>
    /\ ret' = [op |-> "iter_signals", kind |-> "ok", paths |-> <<>>, appended |-> 0]
    /\ UNCHANGED <<signal_files, emission_files, signal_index, emission_index,
                   history, inherited, interrupted, own_pending, checkpoint, delivered,
                   processed_chunk, chunk_checkpoint>>
    /\ UNCHANGED <<documents, peer>>

\* next(gen): an element is returned, the generator is exhausted, or the
\* exception of its body (ValueError, JSONDecodeError) reaches the caller.
ScanNext ==
    /\ cursor # <<>>
    /\ cursor[1].gen.kind = "running"
    /\ cursor' = <<[cursor[1] EXCEPT !.gen = IterSignalsNext(signal_files, @)]>>
    /\ ret' = [op |-> "next",
               kind |-> IF cursor'[1].gen.kind = "running" THEN "ok" ELSE cursor'[1].gen.kind,
               paths |-> <<>>, appended |-> 0]
    /\ UNCHANGED <<signal_files, emission_files, signal_index, emission_index,
                   history, inherited, interrupted, own_pending, checkpoint, delivered,
                   processed_chunk, chunk_checkpoint>>
    /\ UNCHANGED <<documents, peer>>

LazyWriteSignal(signal) ==
    LET r == WriteSignalCall(Store, signal, "return_existing")
    IN /\ LinesOnDisk(r.store) <= MaxLazy
       /\ Put(r.store)
       /\ ret' = Returned("write_signal", r.store, r.kind, r.path)
       /\ history' = [history EXCEPT !.signals = Remember(@, "signal_id", <<signal>>, r.path, 1)]
       /\ cursor' = IF /\ cursor # <<>>
                       /\ r.store.signal_files # signal_files
                       /\ cursor[1].gen.kind = "running"
                       /\ cursor[1].gen.out # <<>>
                    THEN <<[cursor[1] EXCEPT !.interleaved = @ + 1]>>
                    ELSE cursor
       /\ UNCHANGED <<inherited, interrupted, own_pending, checkpoint, delivered,
                      processed_chunk, chunk_checkpoint>>
       /\ UNCHANGED <<documents, peer>>

ReopenLazy ==
    /\ signal_index.built
    /\ signal_index' = NoIndex
    /\ emission_index' = NoIndex
    /\ ret' = [op |-> "__init__", kind |-> "ok", paths |-> <<>>, appended |-> 0]
    /\ UNCHANGED <<signal_files, emission_files, history, inherited, calls,
                   checkpoint, delivered, processed_chunk, chunk_checkpoint>>
    /\ UNCHANGED <<documents, peer>>

NextLazy ==
    \/ \E rg \in LazyRanges : StartScan(rg[1], rg[2])
    \/ ScanNext
    \/ \E signal \in LazySignals : LazyWriteSignal(signal)
    \/ ReopenLazy

\* The caller goes on asking for elements until the generator ends.
SpecLazy == Init /\ [][NextLazy]_vars /\ WF_vars(ScanNext)

\* ------------------------------------------------------------- a consumer
\* A worker replays [epoch, ScanEnd].  Each pass it takes the stream of
\* iter_signals_from_checkpoint with its checkpoint to the end, processes the
\* first n signals of the stream, builds the checkpoint of the signals it
\* processed in that pass, saves it under its name and goes on with the
\* checkpoint it reads back.
ScanEnd == [wall |-> MaxWall, tz |-> "utc"]

WorkerName == "ingestion_worker"

\* What a resume from the worker's checkpoint yields on the files as they are.
Resumed == IterSignalsFromCheckpoint(signal_files, ScanEnd, checkpoint, <<>>, <<>>, <<>>)

\* store.iter_signals_from_checkpoint(start, end, checkpoint=...): the
\* generator is made; nothing has been read.
BeginPass ==
    /\ cursor = <<>>
    /\ cursor' = <<[gen |-> IterSignalsFromCheckpointLazy(ScanEnd, checkpoint,
                                                          <<>>, <<>>, <<>>)]>>
    /\ ret' = [op |-> "iter_signals_from_checkpoint", kind |-> "ok", paths |-> <<>>,
               appended |-> 0]
    /\ UNCHANGED <<signal_files, emission_files, signal_index, emission_index,
                   history, inherited, interrupted, own_pending, checkpoint, delivered,
                   processed_chunk, chunk_checkpoint>>
    /\ UNCHANGED <<documents, peer>>

\* list(...) running the generator: one step of its body.
PassStep ==
    /\ cursor # <<>>
    /\ cursor[1].gen.kind = "running"
    /\ cursor' = <<[gen |-> IterSignalsFromCheckpointStep(signal_files, cursor[1].gen)]>>
    /\ ret' = [op |-> "next", kind |-> "ok", paths |-> <<>>, appended |-> 0]
    /\ UNCHANGED <<signal_files, emission_files, signal_index, emission_index,
                   history, inherited, interrupted, own_pending, checkpoint, delivered,
                   processed_chunk, chunk_checkpoint>>
    /\ UNCHANGED <<documents, peer>>

\* The rest of the pass, once the stream has ended: processed = stream[:n],
\* build_signal_checkpoint(processed), the assert that a checkpoint was built,
\* write_checkpoint(name, checkpoint), read_checkpoint(name).  A stream that
\* ended in an exception leaves nothing to process.  A chunk whose timestamps
\* decrease has been processed when build_signal_checkpoint raises ValueError.
\* An empty chunk builds None: the assert raises AssertionError, or, in a run
\* with assert statements compiled out (python -O), write_checkpoint empties
\* the worker's file and raises AttributeError.  In these cases the worker
\* keeps the checkpoint it had.
ConsumePass(n, asserts) ==
    /\ cursor # <<>>
    /\ cursor[1].gen.kind # "running"
    /\ LET gen == cursor[1].gen
           processed == SubSeq(gen.out, 1, n)
           built == BuildSignalCheckpoint(processed)
           saved == WriteCheckpointCall(checkpoint_files, WorkerName, built.checkpoint[1])
           loaded == ReadCheckpointCall(saved.files, WorkerName)
           emptied == WriteCheckpointCallOfNone(checkpoint_files, WorkerName)
           outcome == IF gen.kind # "ok" THEN "stream raised"
                      ELSE IF built.kind # "ok" THEN "build raised"
                      ELSE IF built.checkpoint # <<>> THEN "saved"
                      ELSE IF asserts THEN "assert raised"
                      ELSE "write raised"
       IN /\ n <= Len(gen.out)
          /\ gen.kind # "ok" => n = 0
          /\ outcome \notin {"assert raised", "write raised"} => asserts
          /\ Len(delivered) + n <= MaxDelivered
          /\ delivered' = delivered \o [k \in 1..n |-> processed[k].signal_id]
          /\ checkpoint' = IF outcome = "saved" THEN loaded.value ELSE checkpoint
          /\ checkpoint_files' = CASE outcome = "saved" -> saved.files
                                   [] outcome = "write raised" -> emptied.files
                                   [] OTHER -> checkpoint_files
          /\ written' = IF outcome = "saved"
                        THEN Recorded(written, WorkerName, built.checkpoint[1])
                        ELSE written
          /\ ret' = CASE outcome = "saved" ->
                            [op |-> "read_checkpoint", kind |-> loaded.kind,
                             paths |-> <<saved.path>>, appended |-> 0]
                      [] outcome = "stream raised" ->
                            [op |-> "iter_signals_from_checkpoint", kind |-> gen.kind,
                             paths |-> <<>>, appended |-> 0]
                      [] outcome = "build raised" ->
                            [op |-> "build_signal_checkpoint", kind |-> built.kind,
                             paths |-> <<>>, appended |-> 0]
                      [] outcome = "assert raised" ->
                            [op |-> "assert isinstance(checkpoint, ReplayCheckpoint)",
                             kind |-> "AssertionError", paths |-> <<>>, appended |-> 0]
                      [] OTHER ->
                            [op |-> "write_checkpoint", kind |-> emptied.kind,
                             paths |-> <<>>, appended |-> 0]
    /\ cursor' = <<>>
    /\ UNCHANGED <<signal_files, emission_files, signal_index, emission_index,
                   history, inherited, interrupted, own_pending, processed_chunk,
                   chunk_checkpoint, snapshot_files, peer>>

\* The greatest instant on disk, or the epoch's for an empty directory.
LatestOnDisk(files) ==
    LET instants == {Instant(FromDict(AllLines(files)[k]).timestamp) :
                        k \in 1..Len(AllLines(files))}
    IN IF instants = {} THEN Epoch.wall ELSE CHOOSE m \in instants : \A x \in instants : x <= m

\* A well-behaved producer appends in non-decreasing timestamp order, is quiet
\* while the worker is in a pass and has finished when the worker has
\* processed its first signal.
OrderedWriteSignal(signal, on_duplicate) ==
    /\ delivered = <<>>
    /\ checkpoint = <<>>
    /\ cursor = <<>>
    /\ Instant(signal.timestamp) >= LatestOnDisk(signal_files)
    /\ WriteSignal(signal, on_duplicate)

NextConsumer ==
    \/ \E signal \in ValidSignals : OrderedWriteSignal(signal, "return_existing")
    \/ BeginPass
    \/ PassStep
    \/ \E n \in 0..MaxLines, asserts \in BOOLEAN : ConsumePass(n, asserts)

SpecConsumer == Init /\ [][NextConsumer]_vars

\* ------------------------------------------------------------- a consumer and a live producer
\* The producer keeps appending, with any timestamp, while the worker cycles
\* through its passes: a write may fall between two steps of a pass's scan, or
\* between the build of a checkpoint and the resume from it.
LiveWriteSignal(signal, on_duplicate) == WriteSignal(signal, on_duplicate)

NextResume ==
    \/ \E signal \in ValidSignals : LiveWriteSignal(signal, "return_existing")
    \/ BeginPass
    \/ PassStep
    \/ \E n \in 0..MaxLines, asserts \in BOOLEAN : ConsumePass(n, asserts)

SpecResume == Init /\ [][NextResume]_vars

\* ------------------------------------------------------------- the checkpoint builder
\* build_signal_checkpoint is a function of its argument alone: a worker holds
\* any sequence of up to MaxChunk signals and calls it once.
ChunksOf(S) == UNION {[1..n -> S] : n \in 0..MaxChunk}

InitCheckpoint ==
    /\ InitStore
    /\ processed_chunk \in ChunksOf(ValidSignals)
    /\ chunk_checkpoint = NotCalled

BuildCheckpoint ==
    /\ chunk_checkpoint = NotCalled
    /\ chunk_checkpoint' = BuildSignalCheckpoint(processed_chunk)
    /\ UNCHANGED <<signal_files, emission_files, signal_index, emission_index,
                   ret, history, inherited, calls, checkpoint, delivered, processed_chunk>>
    /\ UNCHANGED <<documents, peer>>

NextCheckpoint == BuildCheckpoint

SpecCheckpoint == InitCheckpoint /\ [][NextCheckpoint]_vars

\* ------------------------------------------------------------- properties
\* The arguments the scans are checked with: every range over the instants of
\* the model, no entity filter or one, no source / type filter, an empty one
\* or a non-empty one.
ScanStamps == [wall : (0 - 1)..MaxWall, tz : {"utc"}]
Ranges == {rg \in ScanStamps \X ScanStamps : rg[1].wall <= rg[2].wall}
OptRefs == {<<>>, <<"ent-1">>}
OptSources == {<<>>, << <<>> >>, << <<"ingestor.a">> >>}
OptTypes == {<<>>, << <<>> >>, << <<"ScoresComputed">> >>}

Covers(rg, timestamp) ==
    rg[1].wall <= Instant(timestamp) /\ Instant(timestamp) <= rg[2].wall

CountId(seq, id_field, id) == Cardinality({k \in 1..Len(seq) : seq[k][id_field] = id})

SignalsLike(x) == {v \in ValidSignals : v.signal_id = x}
EmissionsLike(x) == {v \in ValidEmissions : v.emission_id = x}

\* C1: once a write of an envelope with id x has succeeded, a second write
\* (policy ignore or return_existing) of any valid envelope with id x returns
\* the path the first write returned, and every scan whose range covers the
\* first envelope's timestamp yields exactly one record with id x.
C1_IdempotentWrite ==
    /\ \A k \in 1..Len(history.signals) :
        LET first == history.signals[k]
            x == first.envelope.signal_id
        IN \A e \in SignalsLike(x), p \in {"ignore", "return_existing"} :
            LET r == WriteSignalCall(Store, e, p)
            IN /\ r.kind = "ok"
               /\ r.path = <<first.path>>
               /\ \A rg \in Ranges : Covers(rg, first.envelope.timestamp) =>
                    CountId(IterSignals(r.store.signal_files, rg[1], rg[2], <<>>, <<>>).out,
                            "signal_id", x) = 1
    /\ \A k \in 1..Len(history.emissions) :
        LET first == history.emissions[k]
            x == first.envelope.emission_id
        IN \A e \in EmissionsLike(x), p \in {"ignore", "return_existing"} :
            LET r == WriteEmissionCall(Store, e, p)
            IN /\ r.kind = "ok"
               /\ r.path = <<first.path>>
               /\ \A rg \in Ranges : Covers(rg, first.envelope.timestamp) =>
                    CountId(IterEmissions(r.store.emission_files, rg[1], rg[2], <<>>, <<>>).out,
                            "emission_id", x) = 1

\* A write_signal call has just returned the first write's path without appending.
C1_Witness ==
    /\ ret.op = "write_signal" /\ ret.kind = "ok" /\ ret.appended = 0
    /\ Len(history.signals) >= 1
    /\ ret.paths = <<history.signals[1].path>>

\* C2: after any sequence of single and batch writes, also ones that ended in
\* an error, no id occurs in more than one line across the partition files of
\* its class.
C2_NoDuplicateIds ==
    /\ Cardinality(IdsOnDisk(signal_files, "signal_id")) = Len(AllLines(signal_files))
    /\ Cardinality(IdsOnDisk(emission_files, "emission_id")) = Len(AllLines(emission_files))

\* A batch under policy raise appended one new id and then hit a duplicate.
C2_Witness ==
    /\ ret.op = "write_signals" /\ ret.kind = "DuplicateEventError"
    /\ ret.appended = 1
    /\ Len(AllLines(signal_files)) = 2

\* C5: every line of the partition file of day D has a timestamp whose
\* UTC-normalized date is D, for UTC, offset and zone-less timestamps alike.
C5_PartitionInvariant ==
    /\ \A d \in DOMAIN signal_files : \A k \in 1..Len(signal_files[d]) :
            DateOf(EnsureUtc(FromDict(signal_files[d][k]).timestamp)) = d
    /\ \A d \in DOMAIN emission_files : \A k \in 1..Len(emission_files[d]) :
            DateOf(EnsureUtc(FromDict(emission_files[d][k]).timestamp)) = d

\* A partition holds a record stamped in an offset zone whose wall-clock date is
\* another day, and some partition holds a zone-less record.
C5_Witness ==
    /\ \E d \in DOMAIN signal_files : \E k \in 1..Len(signal_files[d]) :
            /\ FromDict(signal_files[d][k]).timestamp.tz = "plus"
            /\ DateOf(FromDict(signal_files[d][k]).timestamp) # d
    /\ \E d \in DOMAIN signal_files : \E k \in 1..Len(signal_files[d]) :
            FromDict(signal_files[d][k]).timestamp.tz = "naive"

IndexConsistent(index, files, id_field) ==
    index.built =>
        /\ DOMAIN index.map = IdsOnDisk(files, id_field)
        /\ \A id \in DOMAIN index.map :
            /\ Exists(files, index.map[id])
            /\ \E k \in 1..Len(files[index.map[id]]) :
                    files[index.map[id]][k][id_field] = id

\* C6: once an index is built, after every operation its key set is the set of
\* ids in the partition files of its directory and each id is bound to a file
\* that holds a line with that id.
C6_IndexConsistent ==
    /\ IndexConsistent(signal_index, signal_files, "signal_id")
    /\ IndexConsistent(emission_index, emission_files, "emission_id")

\* An index rebuilt from inherited files and then extended by an append.
C6_Witness ==
    /\ signal_index.built
    /\ inherited.signals # {}
    /\ DOMAIN signal_index.map # inherited.signals
    /\ ret.op = "write_signal" /\ ret.appended = 1

\* C7: of two envelopes with the same id, the first written is the one on disk
\* and in every scan; a later one with another timestamp and payload changes no
\* partition file, whatever the policy.
C7_FirstAppendedWins ==
    \A k \in 1..Len(history.signals) :
        LET first == history.signals[k]
            x == first.envelope.signal_id
            lines == AllLines(signal_files)
        IN /\ \A j \in 1..Len(lines) :
                lines[j].signal_id = x => lines[j] = ToDict(first.envelope)
           /\ Exists(signal_files, first.path)
           /\ \E j \in 1..Len(signal_files[first.path]) :
                signal_files[first.path][j] = ToDict(first.envelope)
           /\ \A rg \in Ranges : Covers(rg, first.envelope.timestamp) =>
                \E j \in 1..Len(IterSignals(signal_files, rg[1], rg[2], <<>>, <<>>).out) :
                    IterSignals(signal_files, rg[1], rg[2], <<>>, <<>>).out[j] = first.envelope
           /\ \A e \in SignalsLike(x), p \in Policies :
                WriteSignalCall(Store, e, p).store.signal_files = signal_files

\* A write_signal call returned the first record's path without appending, and an
\* envelope with that id for another day and with another payload changes nothing.
C7_Witness ==
    /\ ret.op = "write_signal" /\ ret.kind = "ok" /\ ret.appended = 0
    /\ \E k \in 1..Len(history.signals) :
        LET first == history.signals[k]
        IN /\ ret.paths = <<first.path>>
           /\ \E e \in SignalsLike(first.envelope.signal_id) :
                /\ Destination(e.timestamp) # first.path
                /\ e.payload # first.envelope.payload
                /\ ~Exists(signal_files, Destination(e.timestamp))
                /\ WriteSignalCall(Store, e, "return_existing").path = <<first.path>>

\* C8: a fresh instance on a workspace that holds records treats every id on
\* disk as a duplicate: a write of such an id appends nothing and returns the
\* file that holds the record, the path the earlier instance returned; the
\* index an instance holds is the index a rebuild from disk yields.
C8_RestartIdempotent ==
    /\ signal_index.built => signal_index.map = BuildIndex(signal_files, "signal_id")
    /\ emission_index.built => emission_index.map = BuildIndex(emission_files, "emission_id")
    /\ \A k \in 1..Len(history.signals) :
        LET first == history.signals[k]
            x == first.envelope.signal_id
        IN x \in inherited.signals =>
            \A e \in SignalsLike(x), p \in {"ignore", "return_existing"} :
                LET r == WriteSignalCall(Store, e, p)
                IN /\ r.store.signal_files = signal_files
                   /\ r.path = <<first.path>>
                   /\ r.store.signal_index.map = BuildIndex(signal_files, "signal_id")
    /\ \A k \in 1..Len(history.emissions) :
        LET first == history.emissions[k]
            x == first.envelope.emission_id
        IN x \in inherited.emissions =>
            \A e \in EmissionsLike(x), p \in {"ignore", "return_existing"} :
                LET r == WriteEmissionCall(Store, e, p)
                IN /\ r.store.emission_files = emission_files
                   /\ r.path = <<first.path>>
                   /\ r.store.emission_index.map = BuildIndex(emission_files, "emission_id")

\* A fresh instance has just answered a write of the one inherited id with the
\* path of the record on disk, rebuilding its index on the way.
C8_Witness ==
    /\ Len(history.signals) = 1
    /\ inherited.signals = {history.signals[1].envelope.signal_id}
    /\ signal_index.built
    /\ ret.op = "write_signal" /\ ret.kind = "ok" /\ ret.appended = 0
    /\ ret.paths = <<history.signals[1].path>>

\* What the scan contract admits: the timestamp lies in [start, end], the
\* source (emission type) is in the filter when a non-empty filter is given,
\* and the entity ref is among the record's refs when one is given.
Admitted(record, rg, entity_ref, values, field) ==
    /\ Covers(rg, record.timestamp)
    /\ (values = <<>> \/ values[1] = <<>>
            \/ \E k \in 1..Len(values[1]) : values[1][k] = record[field])
    /\ (entity_ref = <<>>
            \/ \E k \in 1..Len(record.entity_refs) : record.entity_refs[k] = entity_ref[1])

\* The lines a scan must yield: admitted, and no admitted line with the same id
\* comes earlier (day order, then file order).
Due(files, id_field, rg, entity_ref, values, field) ==
    LET lines == AllLines(files)
    IN {k \in 1..Len(lines) :
            /\ Admitted(FromDict(lines[k]), rg, entity_ref, values, field)
            /\ ~\E j \in 1..(k - 1) :
                    /\ lines[j][id_field] = lines[k][id_field]
                    /\ Admitted(FromDict(lines[j]), rg, entity_ref, values, field)}

YieldsExactly(out, files, id_field, rg, entity_ref, values, field) ==
    LET due == Due(files, id_field, rg, entity_ref, values, field)
    IN /\ Len(out) = Cardinality(due)
       /\ \A k \in due : \E i \in 1..Len(out) : out[i] = FromDict(AllLines(files)[k])
       /\ \A i \in 1..Len(out) : \E k \in due : out[i] = FromDict(AllLines(files)[k])

\* C9: a scan yields a stored record iff its UTC timestamp lies in [start, end]
\* (both ends included), its id was not yielded before in the scan, its source
\* (emission type) is in the filter when one is set (a non-empty list), and the
\* entity ref is among its refs when one is set.
C9_ScanInclusion ==
    \A rg \in Ranges, entity_ref \in OptRefs :
        /\ \A sources \in OptSources :
            LET scan == IterSignals(signal_files, rg[1], rg[2], entity_ref, sources)
            IN /\ scan.kind = "ok"
               /\ YieldsExactly(scan.out, signal_files, "signal_id", rg,
                                entity_ref, sources, "source")
        /\ \A emission_types \in OptTypes :
            LET scan == IterEmissions(emission_files, rg[1], rg[2], entity_ref, emission_types)
            IN /\ scan.kind = "ok"
               /\ YieldsExactly(scan.out, emission_files, "emission_id", rg,
                                entity_ref, emission_types, "emission_type")

\* Two signals are stored; a scan that starts at the instant of one and ends at
\* the instant of the other yields both, and a source filter yields one of them.
C9_Witness ==
    /\ Len(AllLines(signal_files)) = 2
    /\ \E rg \in Ranges :
        /\ rg[1].wall < rg[2].wall
        /\ \E i, j \in 1..2 :
            /\ Instant(FromDict(AllLines(signal_files)[i]).timestamp) = rg[1].wall
            /\ Instant(FromDict(AllLines(signal_files)[j]).timestamp) = rg[2].wall
        /\ Len(IterSignals(signal_files, rg[1], rg[2], <<>>, <<>>).out) = 2
        /\ Len(IterSignals(signal_files, rg[1], rg[2], <<>>, << <<"ingestor.a">> >>).out) = 1

\* The position of an id in the writer's append order.
AppendRank(h, id_field, id) == CHOOSE k \in 1..Len(h) : h[k].envelope[id_field] = id

InReplayOrder(out, h, id_field) ==
    \A i, j \in 1..Len(out) : i < j =>
        LET a == DateOf(EnsureUtc(out[i].timestamp))
            b == DateOf(EnsureUtc(out[j].timestamp))
        IN \/ a < b
           \/ /\ a = b
              /\ AppendRank(h, id_field, out[i][id_field])
                    < AppendRank(h, id_field, out[j][id_field])

\* C10: scans yield records by ascending partition day and, within one day, in
\* the order in which the writer appended them, whatever the order in which
\* the days were written.
C10_ReplayOrder ==
    \A rg \in Ranges, entity_ref \in OptRefs :
        /\ \A sources \in OptSources :
            InReplayOrder(IterSignals(signal_files, rg[1], rg[2], entity_ref, sources).out,
                          history.signals, "signal_id")
        /\ \A emission_types \in OptTypes :
            InReplayOrder(IterEmissions(emission_files, rg[1], rg[2], entity_ref,
                                        emission_types).out,
                          history.emissions, "emission_id")

\* The later day was written first, and a scan over both days yields both records.
C10_Witness ==
    /\ Len(history.signals) = 2
    /\ history.signals[1].path > history.signals[2].path
    /\ \E rg \in Ranges : Len(IterSignals(signal_files, rg[1], rg[2], <<>>, <<>>).out) = 2

Prefixes(seq) == {SubSeq(seq, 1, n) : n \in 0..Len(seq)}

NonDecreasing(signals) ==
    \A i \in 1..(Len(signals) - 1) :
        Instant(signals[i].timestamp) <= Instant(signals[i + 1].timestamp)

\* The prefix, then what the resume from the prefix's checkpoint yields, holds
\* every id of the full scan exactly once and nothing else.
ResumeCompletes(full, prefix, resumed) ==
    LET joined == prefix \o resumed
    IN /\ \A i \in 1..Len(full) : CountId(joined, "signal_id", full[i].signal_id) = 1
       /\ \A i \in 1..Len(joined) : CountId(full, "signal_id", joined[i].signal_id) >= 1

ReplaySafe(rg, entity_ref, sources, full, prefix) ==
    LET built == BuildSignalCheckpoint(prefix)
        resumed == IterSignalsFromCheckpoint(signal_files, rg[2], built.checkpoint,
                                             <<rg[1]>>, entity_ref, sources)
    IN built.kind = "ok" =>
        /\ resumed.kind = "ok"
        /\ ResumeCompletes(full, prefix, resumed.out)

\* C3 as stated: for any store contents and any prefix P of the scan, P followed
\* by the resume from build_signal_checkpoint(P) holds every id of the scan once.
C3_ReplaySafeAnyContents ==
    \A rg \in Ranges, entity_ref \in OptRefs, sources \in OptSources :
        LET full == IterSignalsFromCheckpoint(signal_files, rg[2], <<>>, <<rg[1]>>,
                                              entity_ref, sources).out
        IN \A prefix \in Prefixes(full) :
            ReplaySafe(rg, entity_ref, sources, full, prefix)

\* C3, amended: the same, for scans whose records come in non-decreasing
\* timestamp order; for these the checkpoint of every prefix can be built.
C3_ReplaySafeOrdered ==
    \A rg \in Ranges, entity_ref \in OptRefs, sources \in OptSources :
        LET full == IterSignalsFromCheckpoint(signal_files, rg[2], <<>>, <<rg[1]>>,
                                              entity_ref, sources).out
        IN NonDecreasing(full) =>
            \A prefix \in Prefixes(full) :
                /\ BuildSignalCheckpoint(prefix).kind = "ok"
                /\ ReplaySafe(rg, entity_ref, sources, full, prefix)

\* Two stored signals share an instant; the checkpoint built from the first one
\* alone resumes with exactly the second.
C3_Witness ==
    LET full == IterSignalsFromCheckpoint(signal_files, ScanEnd, <<>>, <<>>, <<>>, <<>>).out
    IN /\ Len(full) = 2
       /\ Instant(full[1].timestamp) = Instant(full[2].timestamp)
       /\ LET built == BuildSignalCheckpoint(SubSeq(full, 1, 1))
          IN /\ built.checkpoint # <<>>
             /\ IterSignalsFromCheckpoint(signal_files, ScanEnd, built.checkpoint,
                                          <<>>, <<>>, <<>>).out = <<full[2]>>

\* C4: over any number of consume / checkpoint / resume cycles of one consumer
\* no signal id is delivered in more than one pass, and no in-range signal is
\* skipped: when a resume has nothing left to yield, every stored signal of the
\* window has been delivered.
C4_AtMostOnceNoSkip ==
    /\ \A i, j \in 1..Len(delivered) : i # j => delivered[i] # delivered[j]
    /\ (checkpoint # <<>> /\ Resumed.out = <<>>) =>
            \A x \in IdsOnDisk(signal_files, "signal_id") :
                \E i \in 1..Len(delivered) : delivered[i] = x

\* The bindings of an index after a call that must not touch it: those it had,
\* or, when the call was the first to need the index, those read from disk.
SameBindings(before, after, files, id_field) ==
    /\ after.built
    /\ after.map = (IF before.built THEN before.map ELSE BuildIndex(files, id_field))

\* The partitions that hold a line with the id.
HoldersOf(files, id_field, id) ==
    {d \in DOMAIN files : \E k \in 1..Len(files[d]) : files[d][k][id_field] = id}

\* C11: a write_signal / write_emission with on_duplicate = raise of an envelope
\* whose id is already stored ends in DuplicateEventError, the error names the
\* id and the partition that holds the stored record, and the partition files
\* and the bindings of the dedup index are those of before the call.
C11_DuplicateRaises ==
    /\ \A x \in IdsOnDisk(signal_files, "signal_id") : \A e \in SignalsLike(x) :
        LET r == WriteSignalCall(Store, e, "raise")
        IN /\ r.kind = "DuplicateEventError"
           /\ \E d \in HoldersOf(signal_files, "signal_id", x) :
                r.message = <<"Duplicate", "signal_id", x, d>>
           /\ r.store.signal_files = signal_files
           /\ r.store.emission_files = emission_files
           /\ SameBindings(signal_index, r.store.signal_index, signal_files, "signal_id")
           /\ r.store.emission_index = emission_index
    /\ \A x \in IdsOnDisk(emission_files, "emission_id") : \A e \in EmissionsLike(x) :
        LET r == WriteEmissionCall(Store, e, "raise")
        IN /\ r.kind = "DuplicateEventError"
           /\ \E d \in HoldersOf(emission_files, "emission_id", x) :
                r.message = <<"Duplicate", "emission_id", x, d>>
           /\ r.store.emission_files = emission_files
           /\ r.store.signal_files = signal_files
           /\ SameBindings(emission_index, r.store.emission_index, emission_files, "emission_id")
           /\ r.store.signal_index = signal_index

\* A write_signal under policy raise has just ended in DuplicateEventError on a
\* store that holds records in two partitions, appending nothing.
C11_Witness ==
    /\ ret.op = "write_signal" /\ ret.kind = "DuplicateEventError" /\ ret.appended = 0
    /\ Cardinality(DOMAIN signal_files) = 2

\* The policy values outside ignore, return_existing, raise.
UnsupportedPolicies == Policies \ {"ignore", "return_existing", "raise"}

\* C12: every write_signal / write_emission call whose on_duplicate value is
\* not one of ignore, return_existing, raise ends in ValueError and changes
\* neither the partition files nor the dedup index.
C12_BadPolicyRejected ==
    \A p \in UnsupportedPolicies :
        /\ \A e \in Signals :
            LET r == WriteSignalCall(Store, e, p)
            IN /\ r.kind = "ValueError"
               /\ r.store.signal_files = signal_files
               /\ r.store.signal_index.map = GetSignalIndex(Store).signal_index.map
        /\ \A e \in Emissions :
            LET r == WriteEmissionCall(Store, e, p)
            IN /\ r.kind = "ValueError"
               /\ r.store.emission_files = emission_files
               /\ r.store.emission_index.map = GetEmissionIndex(Store).emission_index.map

\* C13: write_signal / write_emission of an envelope with an empty id or an
\* empty schema_version ends in ValueError under every policy value; no line is
\* appended and the instance's indexes are left as they were, built or not.
C13_ValidationOnWrite ==
    \A p \in Policies :
        /\ \A e \in InvalidSignals :
            LET r == WriteSignalCall(Store, e, p)
            IN r.kind = "ValueError" /\ r.store = Store
        /\ \A e \in InvalidEmissions :
            LET r == WriteEmissionCall(Store, e, p)
            IN r.kind = "ValueError" /\ r.store = Store

\* A fresh instance on a workspace with records has just rejected a write_signal
\* with ValueError before its index was needed: the envelope failed validation.
C13_Witness ==
    /\ ret.op = "write_signal" /\ ret.kind = "ValueError" /\ ret.appended = 0
    /\ ~signal_index.built
    /\ Len(AllLines(signal_files)) >= 1

\* The range arguments of any zone, one tick before the first record included.
AnyStamps == [wall : (0 - 1)..MaxWall, tz : Zones]

\* C14: iter_signals and iter_emissions with end earlier than start, both taken
\* as UTC instants, end in ValueError and yield nothing; every other range is
\* accepted, and one with end equal to start yields the records of that instant.
C14_MalformedRange ==
    \A start \in AnyStamps, end \in AnyStamps :
        LET rs == IterSignals(signal_files, start, end, <<>>, <<>>)
            re == IterEmissions(emission_files, start, end, <<>>, <<>>)
            rg == <<EnsureUtc(start), EnsureUtc(end)>>
        IN /\ Instant(end) < Instant(start) =>
                /\ rs.kind = "ValueError" /\ rs.out = <<>>
                /\ re.kind = "ValueError" /\ re.out = <<>>
           /\ Instant(end) >= Instant(start) => rs.kind = "ok" /\ re.kind = "ok"
           /\ Instant(end) = Instant(start) =>
                /\ YieldsExactly(rs.out, signal_files, "signal_id", rg, <<>>, <<>>, "source")
                /\ YieldsExactly(re.out, emission_files, "emission_id", rg, <<>>, <<>>,
                                 "emission_type")

\* The store holds a signal at instant 0.  A scan from wall reading 1 in the
\* offset zone to wall reading 0 in UTC, one and the same instant, yields it,
\* and the scan from 1 to 0 in UTC ends in ValueError.
C14_Witness ==
    /\ \E k \in 1..Len(AllLines(signal_files)) :
            Instant(FromDict(AllLines(signal_files)[k]).timestamp) = 0
    /\ LET same == IterSignals(signal_files, [wall |-> 1, tz |-> "plus"],
                               [wall |-> 0, tz |-> "utc"], <<>>, <<>>)
           reversed == IterSignals(signal_files, [wall |-> 1, tz |-> "utc"],
                                   [wall |-> 0, tz |-> "utc"], <<>>, <<>>)
       IN /\ same.kind = "ok" /\ Len(same.out) >= 1
          /\ reversed.kind = "ValueError" /\ reversed.out = <<>>

\* The greatest instant of a non-empty sequence of signals.
MaxInstant(signals) ==
    CHOOSE m \in {Instant(signals[i].timestamp) : i \in 1..Len(signals)} :
        \A i \in 1..Len(signals) : Instant(signals[i].timestamp) <= m

\* The ids of the signals at instant t, each once, in first-seen order.
RECURSIVE DistinctIdsAt(_, _, _, _)
DistinctIdsAt(signals, t, i, acc) ==
    IF i > Len(signals) THEN acc
    ELSE DistinctIdsAt(signals, t, i + 1,
            IF Instant(signals[i].timestamp) = t
               /\ ~\E k \in 1..Len(acc) : acc[k] = signals[i].signal_id
            THEN Append(acc, signals[i].signal_id) ELSE acc)

Called == chunk_checkpoint # NotCalled

\* The result for a non-decreasing chunk: absence for the empty one, otherwise
\* the maximum timestamp and the distinct ids at it, in first-seen order.
BuildsBoundary ==
    (Called /\ NonDecreasing(processed_chunk)) =>
        /\ chunk_checkpoint.kind = "ok"
        /\ processed_chunk = <<>> => chunk_checkpoint.checkpoint = <<>>
        /\ processed_chunk # <<>> =>
            /\ chunk_checkpoint.checkpoint # <<>>
            /\ LET cp == chunk_checkpoint.checkpoint[1]
                   m == MaxInstant(processed_chunk)
               IN /\ cp.last_timestamp = [wall |-> m, tz |-> "utc"]
                  /\ cp.seen_ids_at_timestamp = DistinctIdsAt(processed_chunk, m, 1, <<>>)

SeenIds ==
    IF chunk_checkpoint.checkpoint = <<>> THEN {}
    ELSE {chunk_checkpoint.checkpoint[1].seen_ids_at_timestamp[k] :
            k \in 1..Len(chunk_checkpoint.checkpoint[1].seen_ids_at_timestamp)}

\* C15 as stated: for a non-empty non-decreasing sequence the checkpoint holds
\* the maximum timestamp and the distinct ids of the signals at it in first-seen
\* order, and no id of a signal with an earlier timestamp; for an empty sequence
\* the result is absence.
C15_BuildResult ==
    /\ BuildsBoundary
    /\ (Called /\ NonDecreasing(processed_chunk) /\ processed_chunk # <<>>) =>
        \A i \in 1..Len(processed_chunk) :
            Instant(processed_chunk[i].timestamp) < MaxInstant(processed_chunk) =>
                processed_chunk[i].signal_id \notin SeenIds

\* C15, amended: the same, where the ids kept out are those that occur only on
\* signals with an earlier timestamp.
C15_BuildResultIdsOnlyEarlier ==
    /\ BuildsBoundary
    /\ (Called /\ NonDecreasing(processed_chunk) /\ processed_chunk # <<>>) =>
        \A i \in 1..Len(processed_chunk) :
            (\A j \in 1..Len(processed_chunk) :
                processed_chunk[j].signal_id = processed_chunk[i].signal_id =>
                    Instant(processed_chunk[j].timestamp) < MaxInstant(processed_chunk))
                => processed_chunk[i].signal_id \notin SeenIds

\* The call was made on three signals over two instants, two of them with
\* distinct ids at the later instant: the checkpoint lists those two ids.
C15_Witness ==
    /\ Called
    /\ Len(processed_chunk) = 3
    /\ Instant(processed_chunk[1].timestamp) < Instant(processed_chunk[2].timestamp)
    /\ Instant(processed_chunk[2].timestamp) = Instant(processed_chunk[3].timestamp)
    /\ processed_chunk[2].signal_id # processed_chunk[3].signal_id
    /\ chunk_checkpoint.checkpoint # <<>>
    /\ chunk_checkpoint.checkpoint[1].seen_ids_at_timestamp =
            <<processed_chunk[2].signal_id, processed_chunk[3].signal_id>>

\* Some signal of the sequence has a smaller timestamp than one before it.
OutOfOrder(signals) ==
    \E i \in 1..Len(signals), j \in 1..Len(signals) :
        i < j /\ Instant(signals[j].timestamp) < Instant(signals[i].timestamp)

\* C16: build_signal_checkpoint ends in ValueError, returning no checkpoint,
\* exactly when some signal has a smaller timestamp than a signal before it;
\* equal consecutive timestamps are accepted.
C16_RejectsOutOfOrder ==
    Called =>
        /\ OutOfOrder(processed_chunk) =>
                chunk_checkpoint.kind = "ValueError" /\ chunk_checkpoint.checkpoint = <<>>
        /\ ~OutOfOrder(processed_chunk) => chunk_checkpoint.kind = "ok"

\* The call was made on two signals of one instant followed by an earlier one,
\* written with different zones, and ended in ValueError.
C16_Witness ==
    /\ Called
    /\ Len(processed_chunk) = 3
    /\ Instant(processed_chunk[1].timestamp) = Instant(processed_chunk[2].timestamp)
    /\ processed_chunk[1].timestamp.tz # processed_chunk[2].timestamp.tz
    /\ Instant(processed_chunk[3].timestamp) < Instant(processed_chunk[2].timestamp)
    /\ chunk_checkpoint.kind = "ValueError"

\* The checkpoints a caller may hand in: any instant of the model with any list
\* of ids, and the start arguments: None or an instant.
IdLists == {<<>>, <<"s1">>, <<"s2">>, <<"s1", "s2">>}
Checkpoints == {ReplayCheckpoint(ts, ids) : ts \in ScanStamps, ids \in IdLists}
OptStarts == {<<>>} \cup {<<ts>> : ts \in ScanStamps}

Later(a, b) == IF Instant(a) >= Instant(b) THEN EnsureUtc(a) ELSE EnsureUtc(b)

\* C17: iter_signals_from_checkpoint(start, end, checkpoint = cp) yields the
\* sequence of iter_signals over [max(start or epoch, cp.last_timestamp), end]
\* with the same filters, minus the records at cp.last_timestamp whose id is in
\* cp.seen_ids_at_timestamp; a record at cp.last_timestamp with another id stays.
C17_CheckpointApply ==
    \A cp \in Checkpoints, start \in OptStarts, end \in ScanStamps,
       entity_ref \in OptRefs, sources \in OptSources :
        LET from == Later(IF start = <<>> THEN Epoch ELSE start[1], cp.last_timestamp)
            scan == IterSignals(signal_files, from, end, entity_ref, sources)
            IsSeen(signal) ==
                /\ Instant(signal.timestamp) = Instant(cp.last_timestamp)
                /\ \E k \in 1..Len(cp.seen_ids_at_timestamp) :
                        cp.seen_ids_at_timestamp[k] = signal.signal_id
            Kept(signal) == ~IsSeen(signal)
            resumed == IterSignalsFromCheckpoint(signal_files, end, <<cp>>, start,
                                                 entity_ref, sources)
        IN /\ resumed.kind = scan.kind
           /\ resumed.out = SelectSeq(scan.out, Kept)

\* The store holds two signals of one instant: resuming from a checkpoint at
\* that instant that lists the second id yields the first one alone, and a
\* start after the checkpoint's timestamp overrides it.
C17_Witness ==
    LET lines == AllLines(signal_files)
    IN /\ Len(lines) = 2
       /\ Instant(FromDict(lines[1]).timestamp) = 0
       /\ Instant(FromDict(lines[2]).timestamp) = 0
       /\ IterSignalsFromCheckpoint(signal_files, ScanEnd,
                <<ReplayCheckpoint([wall |-> 0, tz |-> "utc"], <<lines[2].signal_id>>)>>,
                <<>>, <<>>, <<>>).out = <<FromDict(lines[1])>>
       /\ IterSignalsFromCheckpoint(signal_files, ScanEnd,
                <<ReplayCheckpoint([wall |-> 0 - 1, tz |-> "utc"], <<>>)>>,
                << [wall |-> 1, tz |-> "utc"] >>, <<>>, <<>>).out = <<>>

\* A write_signal has just appended a new id while the worker holds a checkpoint:
\* the append came after the checkpoint was built and before the next resume.
AppendedSinceCheckpoint ==
    /\ checkpoint # <<>>
    /\ ret.op = "write_signal" /\ ret.kind = "ok" /\ ret.appended = 1

LastAppended == history.signals[Len(history.signals)].envelope

ResumeYields(rg, id) ==
    LET resumed == IterSignalsFromCheckpoint(signal_files, rg[2], checkpoint, <<rg[1]>>,
                                             <<>>, <<>>)
    IN \E i \in 1..Len(resumed.out) : resumed.out[i].signal_id = id

\* C18 as stated: a signal with a new id and a timestamp in [start, end] that is
\* appended after a checkpoint was built and before the resume is yielded by
\* the resumed iter_signals_from_checkpoint, whatever its timestamp relative to
\* checkpoint.last_timestamp.
C18_NoneMissedOnResume ==
    AppendedSinceCheckpoint =>
        \A rg \in Ranges : Covers(rg, LastAppended.timestamp) =>
            ResumeYields(rg, LastAppended.signal_id)

\* C18, amended: such a signal is yielded by the resume when its timestamp is
\* equal to or after checkpoint.last_timestamp, and is not yielded when its
\* timestamp is before it.
C18_NoneMissedFromBoundary ==
    AppendedSinceCheckpoint =>
        \A rg \in Ranges : Covers(rg, LastAppended.timestamp) =>
            (ResumeYields(rg, LastAppended.signal_id)
                <=> Instant(LastAppended.timestamp) >= Instant(checkpoint[1].last_timestamp))

\* A signal was appended at the checkpoint's own timestamp after one signal of
\* that timestamp had been processed, and the resume yields it.
C18_Witness ==
    /\ AppendedSinceCheckpoint
    /\ Len(delivered) = 1
    /\ Instant(LastAppended.timestamp) = Instant(checkpoint[1].last_timestamp)
    /\ LastAppended.signal_id # delivered[1]
    /\ \E i \in 1..Len(Resumed.out) : Resumed.out[i] = LastAppended

\* FileSystemStore(workspace) constructed anew on the files of S.
Fresh(S) == [S EXCEPT !.signal_index = NoIndex, !.emission_index = NoIndex]

\* The arguments the ranked reads are checked with.
Limits == 0..MaxLimit
OptEnds == {<<>>} \cup {<<ts>> : ts \in ScanStamps}
OptPayloadTypes == {<<>>, << <<"Synthetic">> >>}
ScoreFields == {"score", "attempt"}

\* The reads whose window is given in full: for ranges, filters and limits, the
\* answers of instance A and of instance B.
SameWindowedReads(A, B) ==
    \A rg \in Ranges, limit \in Limits, entity_ref \in OptRefs :
        /\ \A sources \in OptSources :
            /\ IterSignals(A.signal_files, rg[1], rg[2], entity_ref, sources)
                    = IterSignals(B.signal_files, rg[1], rg[2], entity_ref, sources)
            /\ GetLatestDraftSignals(A, limit, rg[1], rg[2], entity_ref, sources, <<>>)
                    = GetLatestDraftSignals(B, limit, rg[1], rg[2], entity_ref, sources, <<>>)
        /\ \A types \in OptTypes :
            /\ IterEmissions(A.emission_files, rg[1], rg[2], entity_ref, types)
                    = IterEmissions(B.emission_files, rg[1], rg[2], entity_ref, types)
            /\ GetLatestApprovalOutcomes(A, limit, rg[1], rg[2], entity_ref, types)
                    = GetLatestApprovalOutcomes(B, limit, rg[1], rg[2], entity_ref, types)
        /\ \A score_field \in ScoreFields, unique_by_entity \in BOOLEAN :
            GetTopRecommendationCandidates(A, rg[1], rg[2], limit, entity_ref, <<>>, <<>>,
                                           score_field, unique_by_entity)
                = GetTopRecommendationCandidates(B, rg[1], rg[2], limit, entity_ref, <<>>,
                                                 <<>>, score_field, unique_by_entity)

\* The recency reads: instance A asked when the clock reads now_a, instance B
\* when it reads now_b, for every window that does not start after now_a.
SameRecencyReads(A, now_a, B, now_b, ends) ==
    \A limit \in Limits, end \in ends,
       start \in {st \in OptStarts : st = <<>> \/ st[1].wall <= now_a.wall} :
        /\ GetRecentSignalsByEntity(A, "ent-1", limit, start, end, <<>>, now_a)
                = GetRecentSignalsByEntity(B, "ent-1", limit, start, end, <<>>, now_b)
        /\ GetRecentSignalsBySource(A, "ingestor.a", limit, start, end, <<>>, now_a)
                = GetRecentSignalsBySource(B, "ingestor.a", limit, start, end, <<>>, now_b)

MoreRecent(a, b) ==
    \/ Instant(a.timestamp) > Instant(b.timestamp)
    \/ /\ Instant(a.timestamp) = Instant(b.timestamp)
       /\ IdRank(a.signal_id) > IdRank(b.signal_id)

\* out is the first `limit` of `matching` by (timestamp descending, id descending).
FirstByRecency(out, matching, limit) ==
    LET pool == {matching[k] : k \in 1..Len(matching)}
        got == {out[k] : k \in 1..Len(out)}
    IN /\ Len(out) = (IF limit < Len(matching) THEN limit ELSE Len(matching))
       /\ Len(out) <= limit
       /\ got \subseteq pool
       /\ \A i \in 1..(Len(out) - 1) : MoreRecent(out[i], out[i + 1])
       /\ \A x \in pool \ got : \A y \in got : MoreRecent(y, x)

\* C20: get_recent_signals_by_entity and get_recent_signals_by_source return the
\* first `limit` matching signals of the scan over [start or epoch, end or now]
\* by timestamp descending, then id descending; never more than `limit`
\* elements, and none when limit <= 0.
C20_RecencyQueries ==
    \A limit \in (0 - 1)..MaxLimit, start \in OptStarts, end \in OptEnds, now \in ScanStamps :
        LET from == IF start # <<>> THEN start[1] ELSE Epoch
            to == IF end # <<>> THEN end[1] ELSE now
        IN /\ \A sources \in OptSources :
                LET r == GetRecentSignalsByEntity(Store, "ent-1", limit, start, end,
                                                  sources, now)
                    scan == IterSignals(signal_files, from, to, <<"ent-1">>, sources)
                IN IF limit <= 0 THEN r.kind = "ok" /\ r.out = <<>>
                   ELSE /\ r.kind = scan.kind
                        /\ FirstByRecency(r.out, scan.out, limit)
           /\ \A entity_ref \in OptRefs, source \in {"ingestor.a", "ingestor.b"} :
                LET r == GetRecentSignalsBySource(Store, source, limit, start, end,
                                                  entity_ref, now)
                    scan == IterSignals(signal_files, from, to, entity_ref,
                                        << <<source>> >>)
                IN IF limit <= 0 THEN r.kind = "ok" /\ r.out = <<>>
                   ELSE /\ r.kind = scan.kind
                        /\ FirstByRecency(r.out, scan.out, limit)

\* Two signals of one instant and one entity were appended, s1 first: asked for
\* one, the entity query returns s2, and asked for two, s2 then s1.
C20_Witness ==
    LET lines == AllLines(signal_files)
    IN /\ Len(lines) = 2
       /\ lines[1].signal_id = "s1" /\ lines[2].signal_id = "s2"
       /\ Instant(FromDict(lines[1]).timestamp) = Instant(FromDict(lines[2]).timestamp)
       /\ GetRecentSignalsByEntity(Store, "ent-1", 1, <<>>, <<>>, <<>>, ScanEnd).out
                = <<FromDict(lines[2])>>
       /\ GetRecentSignalsByEntity(Store, "ent-1", MaxLimit, <<>>, <<>>, <<>>, ScanEnd).out
                = <<FromDict(lines[2]), FromDict(lines[1])>>

\* ------------------------------------------------------------- properties: facade and documents
TopLimits == 1..MaxCandidates
OptCandidateTypes == {<<>>, << <<"RecommendationCandidate">> >>, << <<"Draft">> >>}

\* The score entry of a payload is a JSON number (true and false count, as
\* they do for isinstance(x, (int, float))).
HasNumericScore(signal, score_field) ==
    /\ signal.payload.type = "dict"
    /\ score_field \in DOMAIN signal.payload.value
    /\ signal.payload.value[score_field].type \in {"int", "float", "bool"}

HasNoScore(signal, score_field) ==
    /\ signal.payload.type = "dict"
    /\ score_field \notin DOMAIN signal.payload.value

InOut(signal, out) == \E k \in 1..Len(out) : out[k] = signal

\* C21 as stated: get_top_recommendation_candidates returns only signals whose
\* payload is a mapping with a numeric payload[score_field]; a signal without
\* that entry, or with a non-numeric one, never appears in the result.
C21_OnlyScoredCandidates ==
    \A rg \in Ranges, limit \in TopLimits, types \in OptCandidateTypes, unique \in BOOLEAN :
        LET r == GetTopRecommendationCandidates(Store, rg[1], rg[2], limit, <<>>, <<>>,
                                                types, "score", unique)
        IN \A k \in 1..Len(r.out) : HasNumericScore(r.out[k], "score")

\* C21 amended: the result holds only signals whose payload is a mapping and
\* whose score entry is numeric or absent (an absent entry counts as score
\* 0.0); a signal with a non-numeric entry or a payload that is no mapping
\* never appears; and without the cap of limit and the entity dedup the
\* result holds every signal of the scan that is eligible in this sense and
\* passes the payload_types filter.
C21_OnlyScoredOrUnscoredCandidates ==
    \A rg \in Ranges, types \in OptCandidateTypes :
        LET scan == IterSignals(signal_files, rg[1], rg[2], <<>>, <<>>).out
            eligible == {scan[k] : k \in {j \in 1..Len(scan) :
                            /\ HasNumericScore(scan[j], "score") \/ HasNoScore(scan[j], "score")
                            /\ types \in {<<>>, << <<>> >>}
                               \/ scan[j].payload_type \in FilterSet(types)[1]}}
            all == GetTopRecommendationCandidates(Store, rg[1], rg[2], MaxCandidates, <<>>,
                                                  <<>>, types, "score", FALSE)
        IN /\ all.kind = "ok"
           /\ {all.out[k] : k \in 1..Len(all.out)} = eligible
           /\ \A limit \in TopLimits, unique \in BOOLEAN :
                LET r == GetTopRecommendationCandidates(Store, rg[1], rg[2], limit, <<>>,
                                                        <<>>, types, "score", unique)
                IN \A k \in 1..Len(r.out) : r.out[k] \in eligible

\* The store holds a candidate with a text in place of the score and one
\* without a score entry; the query over the whole window drops the first and
\* returns the second.
C21_Witness ==
    LET r == GetTopRecommendationCandidates(Store, [wall |-> 0, tz |-> "utc"], ScanEnd,
                                            MaxCandidates, <<>>, <<>>, <<>>, "score", FALSE)
        lines == AllLines(signal_files)
    IN /\ \E k \in 1..Len(lines) : FromDict(lines[k]).payload = Dict([score |-> Text])
       /\ \E k \in 1..Len(lines) : FromDict(lines[k]).payload = List
       /\ \E k \in 1..Len(r.out) : HasNoScore(r.out[k], "score")
       /\ Len(r.out) = 1

\* The rank of a candidate: (score, timestamp, id), an absent score being 0.0.
ScoreOf(signal, score_field) ==
    IF score_field \in DOMAIN signal.payload.value
    THEN signal.payload.value[score_field].value ELSE 0

Outranks(a, b, score_field) ==
    \/ ScoreOf(a, score_field) > ScoreOf(b, score_field)
    \/ /\ ScoreOf(a, score_field) = ScoreOf(b, score_field)
       /\ Instant(a.timestamp) > Instant(b.timestamp)
    \/ /\ ScoreOf(a, score_field) = ScoreOf(b, score_field)
       /\ Instant(a.timestamp) = Instant(b.timestamp)
       /\ IdRank(a.signal_id) > IdRank(b.signal_id)

\* The entity key: the first entity ref, or the signal itself.
KeyOf(signal) ==
    IF Len(signal.entity_refs) > 0 THEN [ref |-> signal.entity_refs[1], signal |-> ""]
    ELSE [ref |-> "", signal |-> signal.signal_id]

\* C22: with unique_by_entity = true the result has at most limit signals, in
\* descending (score, timestamp, id) order, no two with the same entity key,
\* and each is the highest-ranked eligible candidate of its entity key.
C22_TopKUniqueByEntity ==
    \A rg \in Ranges, limit \in TopLimits, types \in OptCandidateTypes :
        LET scan == IterSignals(signal_files, rg[1], rg[2], <<>>, <<>>).out
            eligible == {scan[k] : k \in {j \in 1..Len(scan) :
                            /\ HasNumericScore(scan[j], "score") \/ HasNoScore(scan[j], "score")
                            /\ types \in {<<>>, << <<>> >>}
                               \/ scan[j].payload_type \in FilterSet(types)[1]}}
            r == GetTopRecommendationCandidates(Store, rg[1], rg[2], limit, <<>>, <<>>,
                                                types, "score", TRUE)
        IN /\ r.kind = "ok"
           /\ Len(r.out) <= limit
           /\ \A j, k \in 1..Len(r.out) : j < k =>
                /\ Outranks(r.out[j], r.out[k], "score")
                /\ KeyOf(r.out[j]) # KeyOf(r.out[k])
           /\ \A k \in 1..Len(r.out) :
                /\ r.out[k] \in eligible
                /\ \A other \in eligible :
                     (other # r.out[k] /\ KeyOf(other) = KeyOf(r.out[k]))
                        => Outranks(r.out[k], other, "score")

\* Three candidates are stored, two of them of one entity; the top-2 query
\* returns the better of the two and then the candidate of the other entity,
\* which the lower-scored one of the first entity outranks by its id.
C22_Witness ==
    LET r == GetTopRecommendationCandidates(Store, [wall |-> 0, tz |-> "utc"], ScanEnd,
                                            MaxLimit, <<>>, <<>>, <<>>, "score", TRUE)
        lines == AllLines(signal_files)
    IN /\ Len(lines) = MaxCandidates
       /\ Len(r.out) = MaxLimit
       /\ \E k \in 1..Len(lines) :
            LET left == FromDict(lines[k])
            IN /\ ~InOut(left, r.out)
               /\ HasNumericScore(left, "score")
               /\ KeyOf(left) = KeyOf(r.out[1])
               /\ Outranks(left, r.out[MaxLimit], "score")

\* The filter arguments of the outcome queries: defaults or explicit lists.
OptOutcomeTypes ==
    {<< <<>>, <<>>, <<>> >>,
     << << <<"OutcomePending">> >>, << <<"OutcomeSuccess">> >>, << <<"OutcomeFailure">> >> >>,
     << <<>>, << <<"OutcomeSuccess">> >>, <<>> >>}
OptOutcomeSources == {<<>>, << <<"learning.worker">> >>}

PendingTypes(opt) ==
    IF opt = <<>> THEN {"OutcomePending", "EvaluationRequested", "RecommendationAttempted"}
    ELSE {"OutcomePending"}
ResolvingTypes(success, failure) ==
    (IF success = <<>> THEN {"OutcomeSuccess", "DraftApproved"} ELSE {"OutcomeSuccess"})
        \cup (IF failure = <<>> THEN {"OutcomeFailure", "DraftRejected"} ELSE {"OutcomeFailure"})

\* An emission of a resolving type, in the window, names the id in caused_by.
ResolvedInWindow(id, rg, types) ==
    \E k \in 1..Len(AllLines(emission_files)) :
        LET emission == FromDict(AllLines(emission_files)[k])
        IN /\ Covers(rg, emission.timestamp)
           /\ emission.caused_by = id
           /\ emission.emission_type \in types

\* C23: a signal in the window (and passing the signal filters) whose
\* payload_type is a pending type is in the result of
\* get_unresolved_outcome_signals iff no emission in the window has caused_by
\* equal to its id and a success or failure type, whatever the filters are.
C23_UnresolvedIffNoResolvingEmission ==
    \A rg \in Ranges, entity_ref \in OptRefs, sources \in OptOutcomeSources,
       types \in OptOutcomeTypes :
        LET pending == types[1]
            success == types[2]
            failure == types[3]
            r == GetUnresolvedOutcomeSignals(Store, rg[1], rg[2], entity_ref, sources,
                                             pending, success, failure)
            scan == IterSignals(signal_files, rg[1], rg[2], entity_ref, sources).out
        IN /\ r.kind = "ok"
           /\ \A k \in 1..Len(scan) : scan[k].payload_type \in PendingTypes(pending) =>
                (InOut(scan[k], r.out)
                    <=> ~ResolvedInWindow(scan[k].signal_id, rg, ResolvingTypes(success, failure)))

\* The clock readings handed to the outcome queries, in any zone.
Nows ==
    [wall : 0..(MaxWall + 1), tz : {"utc"}]
        \cup {[wall |-> MaxWall, tz |-> "plus"], [wall |-> MaxWall, tz |-> "naive"]}

\* The windows that end at the last instant of the model.
OutcomeWindows == {rg \in Ranges : rg[2].wall = MaxWall}

\* The expiry a payload spells, as a set: empty when the payload is no
\* mapping, has no such entry, or the entry is no datetime text.
ExpiryInstants(signal, field) ==
    IF signal.payload.type # "dict" THEN {}
    ELSE IF field \notin DOMAIN signal.payload.value THEN {}
    ELSE LET v == signal.payload.value[field]
         IN IF v.type # "str" \/ "offset" \notin DOMAIN v THEN {}
            ELSE {v.value - (IF v.offset \in {"", "Z", "+00:00"} THEN 0 ELSE 1)}

\* C24: get_expired_outcome_signals returns exactly the unresolved signals
\* whose payload[expires_at_field] parses to an instant strictly earlier than
\* now; an expiry equal to now, missing or unparsable is not expired.
C24_ExpiredStrictlyBeforeNow ==
    \A rg \in OutcomeWindows, entity_ref \in OptRefs, types \in OptOutcomeTypes, now \in Nows :
        LET unresolved == GetUnresolvedOutcomeSignals(Store, rg[1], rg[2], entity_ref, <<>>,
                                                      types[1], types[2], types[3])
            expired == GetExpiredOutcomeSignals(Store, now, rg[1], rg[2], entity_ref, <<>>,
                                                types[1], types[2], types[3], "expires_at")
        IN /\ expired.kind = "ok"
           /\ \A k \in 1..Len(expired.out) : InOut(expired.out[k], unresolved.out)
           /\ \A k \in 1..Len(unresolved.out) :
                InOut(unresolved.out[k], expired.out)
                    <=> \E t \in ExpiryInstants(unresolved.out[k], "expires_at") :
                            t < Instant(now)

\* Two unresolved signals are stored: one whose expiry, written with Z, is
\* before the clock reading, and one whose expiry equals it; the query returns
\* the first only.
C24_Witness ==
    LET now == [wall |-> MaxWall, tz |-> "utc"]
        start == [wall |-> 0, tz |-> "utc"]
        unresolved == GetUnresolvedOutcomeSignals(Store, start, ScanEnd, <<>>, <<>>,
                                                  <<>>, <<>>, <<>>)
        expired == GetExpiredOutcomeSignals(Store, now, start, ScanEnd, <<>>, <<>>,
                                            <<>>, <<>>, <<>>, "expires_at")
    IN /\ Len(unresolved.out) = 2
       /\ Len(expired.out) = 1
       /\ expired.out[1].payload = Dict([expires_at |-> IsoText(0, "Z")])
       /\ \E k \in 1..2 : ExpiryInstants(unresolved.out[k], "expires_at") = {MaxWall}

Members(seq) == {seq[k] : k \in 1..Len(seq)}

\* C25: in the result of get_outcome_window_buckets, pending and expired are
\* disjoint, together they are the unresolved set of the same arguments
\* (pending is unresolved without the expired ones, in the same order), and no
\* signal in either is the caused_by of an emission in the success or the
\* failure bucket.
C25_BucketsPartitionUnresolved ==
    \A rg \in OutcomeWindows, entity_ref \in OptRefs, types \in OptOutcomeTypes,
       now \in {t \in Nows : t.tz = "utc"} :
        LET unresolved == GetUnresolvedOutcomeSignals(Store, rg[1], rg[2], entity_ref, <<>>,
                                                      types[1], types[2], types[3])
            r == GetOutcomeWindowBuckets(Store, now, rg[1], rg[2], entity_ref, <<>>,
                                         types[1], types[2], types[3], "expires_at")
            b == r.buckets
            NotExpired(signal) == signal \notin Members(b.expired)
        IN /\ r.kind = "ok"
           /\ Members(b.pending) \cap Members(b.expired) = {}
           /\ Members(b.pending) \cup Members(b.expired) = Members(unresolved.out)
           /\ b.pending = SelectSeq(unresolved.out, NotExpired)
           /\ \A signal \in Members(b.pending) \cup Members(b.expired),
                 emission \in Members(b.success) \cup Members(b.failure) :
                    emission.caused_by # signal.signal_id

\* All four buckets of the whole window are filled: one pending signal, one
\* expired signal, and an emission in success or failure.
C25_Witness ==
    LET r == GetOutcomeWindowBuckets(Store, [wall |-> MaxWall, tz |-> "utc"],
                                     [wall |-> 0, tz |-> "utc"], ScanEnd, <<>>, <<>>,
                                     <<>>, <<>>, <<>>, "expires_at")
    IN /\ Len(r.buckets.pending) = 1
       /\ Len(r.buckets.expired) = 1
       /\ Len(r.buckets.success) + Len(r.buckets.failure) = 1

OptStageSources == {<<>>, << <<>> >>, << <<RouteWorker>> >>, << <<RouterX, ScoreWorker>> >>}
OptResolved == {<<>>, <<TRUE>>, <<FALSE>>}

\* C26: a signal counts as resolved iff its entity_refs is non-empty or its
\* payload_type is EntityResolved, EntityMerged or EntityAliasAdded; for the
\* same range and sources the resolved=true and resolved=false streams are
\* disjoint and together hold exactly the signals of the resolved=nil stream,
\* each in scan order.
C26_EntityCandidateStreams ==
    \A rg \in Ranges, sources \in OptStageSources :
        LET scan == IterSignals(signal_files, rg[1], rg[2], <<>>, sources)
            all == IterEntityCandidateSignals(Store, rg[1], rg[2], <<>>, sources)
            yes == IterEntityCandidateSignals(Store, rg[1], rg[2], <<TRUE>>, sources)
            no == IterEntityCandidateSignals(Store, rg[1], rg[2], <<FALSE>>, sources)
            Resolved(signal) ==
                \/ Len(signal.entity_refs) > 0
                \/ signal.payload_type \in {"EntityResolved", "EntityMerged", "EntityAliasAdded"}
            Unresolved(signal) == ~Resolved(signal)
        IN /\ all.kind = "ok" /\ yes.kind = "ok" /\ no.kind = "ok"
           /\ all.out = scan.out
           /\ yes.out = SelectSeq(all.out, Resolved)
           /\ no.out = SelectSeq(all.out, Unresolved)
           /\ Members(yes.out) \cap Members(no.out) = {}
           /\ Members(yes.out) \cup Members(no.out) = Members(all.out)

\* The whole-window streams: a signal without refs and with a resolver payload
\* type is in the resolved stream, one with neither in the unresolved stream.
C26_Witness ==
    LET start == [wall |-> 0, tz |-> "utc"]
        yes == IterEntityCandidateSignals(Store, start, ScanEnd, <<TRUE>>, <<>>)
        no == IterEntityCandidateSignals(Store, start, ScanEnd, <<FALSE>>, <<>>)
    IN /\ \E k \in 1..Len(yes.out) :
            yes.out[k].entity_refs = <<>> /\ yes.out[k].payload_type = "EntityResolved"
       /\ \E k \in 1..Len(yes.out) : yes.out[k].entity_refs # <<>>
       /\ Len(no.out) = 1

Stages == {Route, <<"s", "c", "o", "r", "e">>}
StageCheckpoints ==
    {<<>>, <<ReplayCheckpoint([wall |-> 0, tz |-> "utc"], <<"s1">>)>>,
     <<ReplayCheckpoint([wall |-> MaxWall, tz |-> "utc"], <<>>)>>}
OptStageTypes == {<<>>, << <<"RouteInput">> >>}
\* The windows that start within the instants of the model.
StageWindows == {rg \in Ranges : rg[1].wall >= 0}
StageWindowSources == {<<>>, << <<>> >>, << <<RouterX, ScoreWorker>> >>}

\* The source is the stage itself or continues it after a dot.
OfStage(source, stage) ==
    \/ source = stage
    \/ /\ Len(source) > Len(stage)
       /\ \A k \in 1..Len(stage) : source[k] = stage[k]
       /\ source[Len(stage) + 1] = "."

\* C27: without a sources filter iter_stage_window_signals yields, of the
\* checkpoint-aware replay, exactly the signals whose source is the stage or
\* starts with the stage and a dot; with a sources filter the stage prefix is
\* not applied; the payload_types allow-list is applied to what the source
\* filtering leaves.
C27_StageWindow ==
    \A stage \in Stages, rg \in StageWindows, cp \in StageCheckpoints, entity_ref \in OptRefs,
       sources \in StageWindowSources, types \in OptStageTypes :
        LET replay == IterSignalsFromCheckpoint(signal_files, rg[2], cp, <<rg[1]>>,
                                                entity_ref, sources)
            r == IterStageWindowSignals(Store, stage, rg[1], rg[2], cp, entity_ref,
                                        sources, types)
            no_sources == sources \in {<<>>, << <<>> >>}
            SourceOk(signal) == ~no_sources \/ OfStage(signal.source, stage)
            TypeOk(signal) == types = <<>> \/ signal.payload_type = "RouteInput"
        IN /\ r.kind = replay.kind
           /\ r.out = SelectSeq(SelectSeq(replay.out, SourceOk), TypeOk)

\* Signals of route.w and of router.x are stored; the window of stage route,
\* called without sources, yields the first and not the second.
C27_Witness ==
    LET start == [wall |-> 0, tz |-> "utc"]
        replay == IterSignalsFromCheckpoint(signal_files, ScanEnd, <<>>, <<start>>, <<>>, <<>>)
        r == IterStageWindowSignals(Store, Route, start, ScanEnd, <<>>, <<>>, <<>>, <<>>)
    IN /\ \E k \in 1..Len(replay.out) : replay.out[k].source = RouterX
       /\ \E k \in 1..Len(r.out) : r.out[k].source = RouteWorker
       /\ \E k \in 1..Len(r.out) : r.out[k].source = Route
       /\ Len(r.out) = 2
\* The file names of one family and one day in store/snapshots.
FilesOf(family, day) ==
    {path \in DOMAIN snapshot_files :
        "day" \in DOMAIN path /\ path.family = family /\ path.day = day}

\* The matching read of a family.
ReadSnapshot(family, day) ==
    IF family = "digest" THEN ReadDailyDigestSnapshotCall(snapshot_files, day)
    ELSE ReadCalibrationSnapshotCall(snapshot_files, day)

\* The same write once more.
WriteSnapshotAgain(family, day, payload) ==
    IF family = "digest" THEN WriteDailyDigestSnapshotCall(snapshot_files, day, payload)
    ELSE WriteCalibrationSnapshotCall(snapshot_files, day, payload)

\* The payload a document read back wraps.
Wrapped(family, document) ==
    IF family = "digest" THEN document.digest ELSE document.report

\* C28 as stated: the matching read returns the payload of the last write
\* itself; one file per day, one path, and a second write of the same payload
\* leaves the files as they are.
C28_ReadReturnsBarePayload ==
    \A key \in DOMAIN written :
        /\ Cardinality(FilesOf(key.family, key.day)) = 1
        /\ written[key].paths = FilesOf(key.family, key.day)
        /\ \A day \in DayArguments :
              DayMeant(day) = key.day =>
                LET read == ReadSnapshot(key.family, day)
                    again == WriteSnapshotAgain(key.family, day, written[key].payload)
                IN /\ read.kind = "ok"
                   /\ read.value = <<written[key].payload>>
                   /\ again.path \in written[key].paths
                   /\ again.files = snapshot_files

\* C28: after any sequence of digest (calibration) writes for one day, given
\* as a token, a date or a datetime, there is exactly one digest (calibration)
\* file for that day, every call returned the same path, the matching read
\* returns the document that wraps the payload of the last write, and writing
\* that payload once more returns that path and leaves every file as it is.
C28_SnapshotWriteOrOverwrite ==
    \A key \in DOMAIN written :
        /\ Cardinality(FilesOf(key.family, key.day)) = 1
        /\ written[key].paths = FilesOf(key.family, key.day)
        /\ \A day \in DayArguments :
              DayMeant(day) = key.day =>
                LET read == ReadSnapshot(key.family, day)
                    again == WriteSnapshotAgain(key.family, day, written[key].payload)
                IN /\ read.kind = "ok"
                   /\ read.value # <<>>
                   /\ Wrapped(key.family, read.value[1])
                        = written[key].payload
                   /\ read.value[1].day = key.day
                   /\ again.path \in written[key].paths
                   /\ again.files = snapshot_files

\* A day's digest was written more than once, one write gave a datetime of
\* another zone and one replaced a different payload; the day's calibration
\* report holds another payload.
C28_Witness ==
    /\ ret.op = "write_daily_digest_snapshot"
    /\ \E key \in DOMAIN written, other \in DOMAIN written :
          /\ key.family = "digest" /\ other.family = "calibration"
          /\ key.day = other.day
          /\ written[key].zoned /\ written[key].replaced
          /\ written[key].payload # written[other].payload

\* C29: read_checkpoint(name) returns a checkpoint equal to the one last
\* written under that name (timestamp, ids in order, schema version), the file
\* spells the timestamp with a trailing Z, a name never written reads as None
\* without an error, and a write under one name leaves what every other name
\* reads as it was.
C29_CheckpointRoundTrip ==
    \A name \in CheckpointNames :
        LET read == ReadCheckpointCall(checkpoint_files, name)
        IN /\ read.kind = "ok"
           /\ name \notin DOMAIN written => read.value = <<>>
           /\ name \in DOMAIN written =>
                /\ read.value = <<written[name].payload>>
                /\ checkpoint_files[CheckpointPath(name)][1].last_timestamp.offset = "Z"
           /\ \A other \in CheckpointNames \ {name}, cp \in ReplayCheckpoints :
                ReadCheckpointCall(
                    WriteCheckpointCall(checkpoint_files, other, cp).files, name) = read

\* One worker's checkpoint was replaced by a different one and holds two ids
\* with s2 first, the other worker has written none.
C29_Witness ==
    /\ ret.op = "write_checkpoint"
    /\ \E name \in DOMAIN written :
          /\ written[name].replaced
          /\ written[name].payload.seen_ids_at_timestamp = <<"s2", "s1">>
          /\ written[name].payload.schema_version # "0.1"
          /\ DOMAIN written = {name}
          /\ ReadCheckpointCall(checkpoint_files, name).value = <<written[name].payload>>

\* The ids of a scan's records, in the order yielded.
YieldedIds(out, id_field) == [k \in 1..Len(out) |-> out[k][id_field]]

\* No id occurs twice in a list.
EachOnce(ids) == \A i, j \in 1..Len(ids) : ids[i] = ids[j] => i = j

\* Some id is on two lines of a directory.
TwoLinesOneId(files, id_field) ==
    ~EachOnce(YieldedIds(AllLines(files), id_field))

\* C30: with two instances writing to one workspace in any interleaving, each
\* with its own index, every iter_signals and iter_emissions scan, which reads
\* the files alone and so is the same for both instances, yields each id at
\* most once, whatever lines the partition files hold.
C30_ScansYieldEachIdOnce ==
    \A rg \in Ranges, ref \in OptRefs :
        /\ \A sources \in OptSources :
              EachOnce(YieldedIds(
                  IterSignals(signal_files, rg[1], rg[2], ref, sources).out, "signal_id"))
        /\ \A types \in OptTypes :
              EachOnce(YieldedIds(
                  IterEmissions(emission_files, rg[1], rg[2], ref, types).out,
                  "emission_id"))

\* The peer appended a signal whose id the open instance had written between
\* the peer's duplicate decision and its append: the workspace holds just two
\* lines, both with that id and in two partitions, each instance's index binds
\* the id to its own line, and a scan yields fewer signals than there are lines.
C30_Witness ==
    /\ ret.op = "write_signal" /\ ret.appended = 1
    /\ LinesOnDisk(Store) = Len(AllLines(signal_files))
    /\ Len(AllLines(signal_files)) = 2
    /\ peer.pending = <<>>
    /\ TwoLinesOneId(signal_files, "signal_id")
    /\ \E id \in DOMAIN peer.signal_index.map :
          /\ signal_index.built /\ id \in DOMAIN signal_index.map
          /\ signal_index.map[id] # peer.signal_index.map[id]
    /\ \E rg \in Ranges :
          Len(IterSignals(signal_files, rg[1], rg[2], <<>>, <<>>).out)
            < Len(AllLines(signal_files))

\* ------------------------------------------------------------- properties: batches, frames and history
\* The batches the batch writers are compared on: one id at two timestamps,
\* another id in another partition, an envelope without id.
ComparedSignals ==
    {SignalEnvelope("s1", [wall |-> 0, tz |-> "utc"], 1, "0.1"),
     SignalEnvelope("s1", [wall |-> MaxWall, tz |-> "utc"], 2, "0.1"),
     SignalEnvelope("s2", [wall |-> 0, tz |-> "plus"], 1, "0.1"),
     SignalEnvelope("", [wall |-> 0, tz |-> "utc"], 1, "0.1")}
ComparedEmissions ==
    {EmissionEnvelope("e1", [wall |-> 0, tz |-> "utc"], 1, "0.1"),
     EmissionEnvelope("e1", [wall |-> 0, tz |-> "plus"], 2, "0.1"),
     EmissionEnvelope("", [wall |-> 0, tz |-> "utc"], 1, "0.1")}

\* A caller writes the elements one call after the other, going on after a
\* call that raised: how each call ended, what it returned, the store after all.
RECURSIVE SignalsOneByOne(_, _, _, _)
SignalsOneByOne(S, signals, i, on_duplicate) ==
    IF i > Len(signals) THEN [store |-> S, kinds |-> <<>>, paths |-> <<>>]
    ELSE LET r == WriteSignalCall(S, signals[i], on_duplicate)
             rest == SignalsOneByOne(r.store, signals, i + 1, on_duplicate)
         IN [store |-> rest.store, kinds |-> <<r.kind>> \o rest.kinds,
             paths |-> <<r.path>> \o rest.paths]

RECURSIVE EmissionsOneByOne(_, _, _, _)
EmissionsOneByOne(S, emissions, i, on_duplicate) ==
    IF i > Len(emissions) THEN [store |-> S, kinds |-> <<>>, paths |-> <<>>]
    ELSE LET r == WriteEmissionCall(S, emissions[i], on_duplicate)
             rest == EmissionsOneByOne(r.store, emissions, i + 1, on_duplicate)
         IN [store |-> rest.store, kinds |-> <<r.kind>> \o rest.kinds,
             paths |-> <<r.path>> \o rest.paths]

AllOk(kinds) == \A k \in 1..Len(kinds) : kinds[k] = "ok"

\* The batch call and the calls one by one agree: same store, a list as long
\* as the batch, entry i the path call i returned, one path for a repeated id.
SameAsOneByOne(batch, single, envelopes, id_field) ==
    /\ batch.kind = "ok"
    /\ batch.store = single.store
    /\ Len(batch.paths) = Len(envelopes)
    /\ \A i \in 1..Len(envelopes) : <<batch.paths[i]>> = single.paths[i]
    /\ \A i, j \in 1..Len(envelopes) :
          envelopes[i][id_field] = envelopes[j][id_field]
            => batch.paths[i] = batch.paths[j]

\* C33 as stated: every batch write, under every policy, equals the writes
\* one by one and returns one path per element.
C33_BatchEqualsSequential ==
    \A p \in Policies :
        /\ \A signals \in BatchesOf(ComparedSignals) :
              SameAsOneByOne(WriteSignalsCall(Store, signals, 1, p, <<>>),
                             SignalsOneByOne(Store, signals, 1, p), signals, "signal_id")
        /\ \A emissions \in BatchesOf(ComparedEmissions) :
              SameAsOneByOne(WriteEmissionsCall(Store, emissions, 1, p, <<>>),
                             EmissionsOneByOne(Store, emissions, 1, p), emissions,
                             "emission_id")

\* C33: a batch write none of whose elements ends in an error when written
\* one by one in order leaves the store as those writes leave it and returns
\* a list as long as the batch whose i-th entry is the path the i-th single
\* write returns; an id repeated in the batch gets the path of its first
\* occurrence and is on one line.
C33_BatchEqualsSequentialWhenNoneRaises ==
    \A p \in Policies :
        /\ \A signals \in BatchesOf(ComparedSignals) :
              LET single == SignalsOneByOne(Store, signals, 1, p)
                  batch == WriteSignalsCall(Store, signals, 1, p, <<>>)
              IN AllOk(single.kinds) =>
                    /\ SameAsOneByOne(batch, single, signals, "signal_id")
                    /\ EachOnce(YieldedIds(AllLines(batch.store.signal_files), "signal_id"))
        /\ \A emissions \in BatchesOf(ComparedEmissions) :
              LET single == EmissionsOneByOne(Store, emissions, 1, p)
                  batch == WriteEmissionsCall(Store, emissions, 1, p, <<>>)
              IN AllOk(single.kinds) =>
                    /\ SameAsOneByOne(batch, single, emissions, "emission_id")
                    /\ EachOnce(YieldedIds(AllLines(batch.store.emission_files),
                                           "emission_id"))

\* write_signals has just returned two equal paths for a batch that appended
\* one line: the batch held one id twice.
C33_Witness ==
    /\ ret.op = "write_signals" /\ ret.kind = "ok"
    /\ Len(ret.paths) = MaxBatch /\ ret.appended = 1
    /\ ret.paths[1] = ret.paths[MaxBatch]
    /\ Len(AllLines(signal_files)) = 1

\* The first index whose single write ends in an error, or 0.
FirstError(kinds) ==
    IF AllOk(kinds) THEN 0
    ELSE CHOOSE k \in 1..Len(kinds) :
            kinds[k] # "ok" /\ \A j \in 1..(k - 1) : kinds[j] = "ok"

\* A batch that raises at element k: the error of element k, no list, the
\* files and index entries the writes of elements 1 .. k-1 leave (`before`,
\* with its index read from disk if no write has done so), whose ids are all
\* on disk and indexed.
StopsAtFirstError(S, batch, single, before, envelopes, id_field, files_field, index_field) ==
    LET k == FirstError(single.kinds)
    IN k # 0 =>
          /\ batch.kind = single.kinds[k]
          /\ batch.paths = <<>>
          /\ batch.store[files_field] = before[files_field]
          /\ batch.store[index_field].built =>
                batch.store[index_field].map = before[index_field].map
          /\ \A j \in 1..(k - 1) :
                /\ envelopes[j][id_field] \in IdsOnDisk(batch.store[files_field], id_field)
                /\ envelopes[j][id_field] \in DOMAIN batch.store[index_field].map
          /\ Len(AllLines(batch.store[files_field]))
                <= Len(AllLines(S[files_field])) + (k - 1)

\* C40: a write_signals / write_emissions call that ends in an error at
\* element k (a duplicate under policy raise or an unsupported policy, or an
\* invalid envelope) raises that error and returns no list; the elements
\* before k stay written and indexed as their single writes leave them, and
\* element k and the later ones append nothing.
C40_BatchNotAtomic ==
    \A p \in Policies :
        /\ \A signals \in BatchesOf(ComparedSignals) :
              LET single == SignalsOneByOne(Store, signals, 1, p)
                  k == FirstError(single.kinds)
              IN StopsAtFirstError(Store,
                    WriteSignalsCall(Store, signals, 1, p, <<>>), single,
                    GetSignalIndex(SignalsOneByOne(Store, SubSeq(signals, 1, k - 1), 1, p).store),
                    signals, "signal_id", "signal_files", "signal_index")
        /\ \A emissions \in BatchesOf(ComparedEmissions) :
              LET single == EmissionsOneByOne(Store, emissions, 1, p)
                  k == FirstError(single.kinds)
              IN StopsAtFirstError(Store,
                    WriteEmissionsCall(Store, emissions, 1, p, <<>>), single,
                    GetEmissionIndex(
                        EmissionsOneByOne(Store, SubSeq(emissions, 1, k - 1), 1, p).store),
                    emissions, "emission_id", "emission_files", "emission_index")

\* write_signals has just raised DuplicateEventError after it appended a line:
\* the first element was new, a later one a duplicate under policy raise.
C40_Witness ==
    /\ ret.op = "write_signals" /\ ret.kind = "DuplicateEventError"
    /\ ret.paths = <<>> /\ ret.appended = 1
    /\ signal_index.built

\* The UTC calendar day of an envelope's timestamp.
UtcDay(envelope) == Instant(envelope.timestamp) \div TicksPerDay

\* One line more in the file of `day`, which is created if it was missing,
\* and every other file as it was.
OneLineMore(before, after, day, line) ==
    /\ DOMAIN after = DOMAIN before \cup {day}
    /\ after[day] = (IF day \in DOMAIN before THEN before[day] ELSE <<>>) \o <<line>>
    /\ \A other \in DOMAIN before \ {day} : after[other] = before[other]

\* The effect of one write on its own class (files, the index entries as read
\* on first use, the index after) for an id that was or was not bound.
WriteFrame(files, entries, r, files_field, index_field, envelope, id) ==
    IF id \notin DOMAIN entries
    THEN r.kind = "ok" =>
            /\ OneLineMore(files, r.store[files_field], UtcDay(envelope), ToDict(envelope))
            /\ r.path = <<UtcDay(envelope)>>
            /\ DOMAIN r.store[index_field].map = DOMAIN entries \cup {id}
            /\ r.store[index_field].map[id] = UtcDay(envelope)
            /\ \A other \in DOMAIN entries : r.store[index_field].map[other] = entries[other]
    ELSE /\ r.store[files_field] = files
         /\ r.store[index_field].built => r.store[index_field].map = entries

\* C34: a successful write of a new id appends one line to the partition file
\* of the envelope's UTC day, created if missing, and adds one index entry;
\* every other partition file, the other class's files and index stay as they
\* were; a write of an id already bound, whatever the policy, changes no file
\* and no index entry; no write step changes a snapshot or a checkpoint file.
C34_WriteFrame ==
    /\ [](\A p \in Policies :
            /\ \A e \in ValidSignals :
                  LET r == WriteSignalCall(Store, e, p)
                  IN /\ WriteFrame(signal_files, GetSignalIndex(Store).signal_index.map,
                                   r, "signal_files", "signal_index", e, e.signal_id)
                     /\ r.store.emission_files = emission_files
                     /\ r.store.emission_index = emission_index
            /\ \A e \in ValidEmissions :
                  LET r == WriteEmissionCall(Store, e, p)
                  IN /\ WriteFrame(emission_files, GetEmissionIndex(Store).emission_index.map,
                                   r, "emission_files", "emission_index", e, e.emission_id)
                     /\ r.store.signal_files = signal_files
                     /\ r.store.signal_index = signal_index)
    /\ [][UNCHANGED <<snapshot_files, checkpoint_files>>]_vars

\* A write of a new id has just created a second partition file next to one
\* that holds the line of the other id; the index binds both.
C34_Witness ==
    /\ ret.op = "write_signal" /\ ret.kind = "ok" /\ ret.appended = 1
    /\ Cardinality(DOMAIN signal_files) = MaxLines
    /\ Cardinality(DOMAIN signal_index.map) = MaxLines
    /\ Len(AllLines(signal_files)) = MaxLines

\* A list starts with another.
IsPrefix(short, long) ==
    /\ Len(short) <= Len(long)
    /\ \A k \in 1..Len(short) : long[k] = short[k]

\* Every partition file of a directory is still there and starts with what it
\* held before.
FilesGrow(before, after) ==
    \A day \in DOMAIN before :
        day \in DOMAIN after /\ IsPrefix(before[day], after[day])

\* A built index keeps the bindings it had, and binds every id to the path
\* its first write returned, also after the instance was opened again.
BindingsKept(before, after, h, id_field) ==
    /\ before.built /\ after.built =>
          \A id \in DOMAIN before.map :
              id \in DOMAIN after.map /\ after.map[id] = before.map[id]
    /\ after.built =>
          \A id \in DOMAIN after.map :
              \E k \in 1..Len(h) :
                  h[k].envelope[id_field] = id /\ h[k].path = after.map[id]

\* C35: in every step of every execution of the store's operations (single
\* and batch writes under every policy, opening a new instance) each signal
\* and emission partition file keeps its lines as a prefix of its new content,
\* and no index binding id -> path changes once set.
C35_AppendOnly ==
    [][/\ FilesGrow(signal_files, signal_files')
       /\ FilesGrow(emission_files, emission_files')
       /\ BindingsKept(signal_index, signal_index', history'.signals, "signal_id")
       /\ BindingsKept(emission_index, emission_index', history'.emissions,
                       "emission_id")]_vars

\* An instance opened on a workspace with one line has appended a second line
\* to that partition file and bound its id.
C35_Witness ==
    /\ ret.op = "write_signal" /\ ret.appended = 1
    /\ inherited.signals # {}
    /\ \E day \in DOMAIN signal_files : Len(signal_files[day]) = MaxLines
    /\ Cardinality(DOMAIN signal_index.map) = MaxLines

\* ------------------------------------------------------------- properties: resume and the plain scan
\* `short` can be got from `long` by leaving records out.
RECURSIVE IsSubsequenceFrom(_, _, _, _)
IsSubsequenceFrom(short, i, long, j) ==
    IF i > Len(short) THEN TRUE
    ELSE IF j > Len(long) THEN FALSE
    ELSE IF short[i] = long[j] THEN IsSubsequenceFrom(short, i + 1, long, j + 1)
    ELSE IsSubsequenceFrom(short, i, long, j + 1)

IsSubsequence(short, long) == IsSubsequenceFrom(short, 1, long, 1)

StartOrEpoch(start) == IF start # <<>> THEN start[1] ELSE Epoch

\* C38: iter_signals_from_checkpoint without a checkpoint ends as iter_signals
\* over [start or epoch, end] with the same filters ends and yields the same
\* sequence; with any checkpoint it yields a subsequence of that sequence, and
\* when the plain scan ends in an error so does the resume.
C38_ResumeFiltersPlainScan ==
    \A end \in ScanStamps, start \in OptStarts, ref \in OptRefs, sources \in OptSources :
        LET plain == IterSignals(signal_files, StartOrEpoch(start), end, ref, sources)
        IN /\ IterSignalsFromCheckpoint(signal_files, end, <<>>, start, ref, sources) = plain
           /\ \A cp \in Checkpoints :
                LET resumed == IterSignalsFromCheckpoint(signal_files, end, <<cp>>,
                                                         start, ref, sources)
                IN /\ IsSubsequence(resumed.out, plain.out)
                   /\ plain.kind # "ok" => resumed.kind = plain.kind

\* Two signals are on disk and some checkpoint makes the resume yield the
\* second of the two the plain scan yields, and only it.
C38_Witness ==
    /\ Len(AllLines(signal_files)) = MaxLines
    /\ \E end \in ScanStamps, cp \in Checkpoints :
          LET plain == IterSignals(signal_files, Epoch, end, <<>>, <<>>)
              resumed == IterSignalsFromCheckpoint(signal_files, end, <<cp>>,
                                                   <<>>, <<>>, <<>>)
          IN /\ resumed.kind = "ok"
             /\ Len(plain.out) = MaxLines
             /\ resumed.out = <<plain.out[MaxLines]>>

\* C39: iter_signals_from_checkpoint with a checkpoint whose last_timestamp is
\* later than end ends in ValueError and yields nothing; with a checkpoint
\* whose last_timestamp equals end, and start not after end, it yields exactly
\* the records the plain scan yields at that instant whose ids are not in
\* seen_ids_at_timestamp.
C39_ResumePastWindow ==
    \A end \in ScanStamps, start \in OptStarts, ref \in OptRefs, sources \in OptSources :
        \A cp \in Checkpoints :
            LET resumed == IterSignalsFromCheckpoint(signal_files, end, <<cp>>,
                                                     start, ref, sources)
                at_end == IterSignals(signal_files, end, end, ref, sources).out
                ids == cp.seen_ids_at_timestamp
            IN /\ Instant(cp.last_timestamp) > Instant(end) =>
                    resumed.kind = "ValueError" /\ resumed.out = <<>>
               /\ Instant(cp.last_timestamp) = Instant(end) =>
                    /\ \A k \in 1..Len(resumed.out) :
                          /\ Instant(resumed.out[k].timestamp) = Instant(end)
                          /\ \A n \in 1..Len(ids) : ids[n] # resumed.out[k].signal_id
                    /\ Instant(StartOrEpoch(start)) <= Instant(end) =>
                          /\ resumed.kind = "ok"
                          /\ IsSubsequence(resumed.out, at_end)
                          /\ \A k \in 1..Len(at_end) :
                                (\A n \in 1..Len(ids) : ids[n] # at_end[k].signal_id)
                                  => \E m \in 1..Len(resumed.out) : resumed.out[m] = at_end[k]

\* Two signals share the latest instant; a checkpoint at that instant that
\* has seen s1 resumes with s2 alone when end is that instant, and the same
\* checkpoint with an earlier end ends in ValueError.
C39_Witness ==
    /\ Len(AllLines(signal_files)) = MaxLines
    /\ LET end == [wall |-> MaxWall, tz |-> "utc"]
           cp == ReplayCheckpoint(end, <<"s1">>)
           resumed == IterSignalsFromCheckpoint(signal_files, end, <<cp>>, <<>>, <<>>, <<>>)
           early == IterSignalsFromCheckpoint(signal_files, Epoch, <<cp>>, <<>>, <<>>, <<>>)
       IN /\ Len(IterSignals(signal_files, end, end, <<>>, <<>>).out) = MaxLines
          /\ resumed.kind = "ok"
          /\ Len(resumed.out) = 1 /\ resumed.out[1].signal_id = "s2"
          /\ early.kind = "ValueError"

\* ------------------------------------------------------------- properties: the canonical copy
\* The partition file a yielded record was read from.
OriginOf(files, record) ==
    CHOOSE day \in DOMAIN files :
        \E k \in 1..Len(files[day]) : FromDict(files[day][k]) = record

\* The number of lines that hold an id.
CopiesOf(files, id_field, id) ==
    Cardinality({k \in 1..Len(AllLines(files)) : AllLines(files)[k][id_field] = id})

\* What an index that holds the id binds it to is the file `day`.
BindsTo(index, id, day) ==
    index.built /\ id \in DOMAIN index.map => index.map[id] = day

\* C37 as stated: for every scan and every record it yields, the file the
\* record was read from is the file an index read from these files binds its
\* id to, and the file each instance's index binds it to.
C37_ScannerAndIndexAgree ==
    \A rg \in Ranges, ref \in OptRefs, sources \in OptSources :
        LET out == IterSignals(signal_files, rg[1], rg[2], ref, sources).out
            fresh == BuildIndex(signal_files, "signal_id")
        IN \A k \in 1..Len(out) :
              LET origin == OriginOf(signal_files, out[k])
              IN /\ out[k].signal_id \in DOMAIN fresh
                 /\ fresh[out[k].signal_id] = origin
                 /\ BindsTo(signal_index, out[k].signal_id, origin)
                 /\ BindsTo(peer.signal_index, out[k].signal_id, origin)

\* C37: a scan yields, of every id, the first line in partition order that
\* passes its range and filters; when the id is on one line only, the file
\* that line was read from is the file an index read from these files binds
\* the id to, and the file every instance's index that holds the id binds it to.
C37_ScannerAndIndexAgreeOnSingleCopies ==
    \A rg \in Ranges, ref \in OptRefs, sources \in OptSources :
        LET out == IterSignals(signal_files, rg[1], rg[2], ref, sources).out
            fresh == BuildIndex(signal_files, "signal_id")
            lines == AllLines(signal_files)
            passes(n) == SignalPasses(FromDict(lines[n]), EnsureUtc(rg[1]), EnsureUtc(rg[2]),
                                      ref, FilterSet(sources), {})
        IN \A k \in 1..Len(out) :
              LET origin == OriginOf(signal_files, out[k])
                  id == out[k].signal_id
              IN /\ \E n \in 1..Len(lines) :
                        /\ FromDict(lines[n]) = out[k] /\ passes(n)
                        /\ \A m \in 1..(n - 1) : ~(lines[m].signal_id = id /\ passes(m))
                 /\ CopiesOf(signal_files, "signal_id", id) = 1 =>
                        /\ id \in DOMAIN fresh
                        /\ fresh[id] = origin
                        /\ BindsTo(signal_index, id, origin)
                        /\ BindsTo(peer.signal_index, id, origin)

\* One id is on two days and another id on one line; a scan of the later day
\* alone yields the later copy, which is not the file an index read from
\* disk binds the id to, and the single-copy id from the file it is bound to.
C37_Witness ==
    /\ Len(AllLines(signal_files)) = MaxRaced
    /\ \E rg \in Ranges :
          LET out == IterSignals(signal_files, rg[1], rg[2], <<>>, <<>>).out
              fresh == BuildIndex(signal_files, "signal_id")
          IN /\ Len(out) = 2
             /\ \E k \in 1..Len(out) :
                   /\ CopiesOf(signal_files, "signal_id", out[k].signal_id) = 2
                   /\ fresh[out[k].signal_id] # OriginOf(signal_files, out[k])
             /\ \E k \in 1..Len(out) :
                   /\ CopiesOf(signal_files, "signal_id", out[k].signal_id) = 1
                   /\ fresh[out[k].signal_id] = OriginOf(signal_files, out[k])

\* ------------------------------------------------------------- properties: damaged files
NotJson(line) == IsRaw(line) /\ line # BlankLine /\ ~IsOpen(line)
HasNotJson(lines) == \E k \in 1..Len(lines) : NotJson(lines[k])
HasBlank(lines) == \E k \in 1..Len(lines) : lines[k] = BlankLine
IsRecordLine(line) == ~IsRaw(line)
Unblanked(files) == [d \in DOMAIN files |-> SelectSeq(files[d], LAMBDA line : line # BlankLine)]

\* The lines a scan of the range goes through, in the order it reads them.
Reached(files, start, end) ==
    LET days == IterDays(DateOf(EnsureUtc(start)), DateOf(EnsureUtc(end)))
    IN Concat(files, SelectSeq(days, LAMBDA d : Exists(files, d)), 1)

\* A scan ends in JSONDecodeError exactly when a line that is not JSON lies in
\* the partitions it reads; otherwise it yields what it would without the
\* empty lines.
ScanSurfaces(scan, clean, reached) ==
    IF HasNotJson(reached) THEN scan.kind = "JSONDecodeError"
    ELSE scan.kind = "ok" /\ scan.out = clean.out

\* A write of an instance whose index is not built yet raises JSONDecodeError,
\* appends nothing and leaves the index unbuilt when a line that is not JSON
\* lies in the directory; otherwise it ends as it would without the empty lines.
BuildSurfaces(r, clean, files, files_field, index_field) ==
    IF HasNotJson(AllLines(files))
    THEN /\ r.kind = "JSONDecodeError"
         /\ r.store[files_field] = files
         /\ ~r.store[index_field].built
    ELSE /\ r.kind = clean.kind
         /\ r.kind # "JSONDecodeError"
         /\ r.path = clean.path
         /\ r.store[index_field].built
         /\ r.store[index_field] = clean.store[index_field]

\* C32: a non-blank line that is not valid JSON makes the scan that reaches it
\* and the index build that reaches it end in an error, and the write that
\* triggered the index build appends nothing; blank lines are skipped by scan
\* and index build without error.
C32_CorruptSurfacesBlankSkipped ==
    /\ ret.kind = "JSONDecodeError" => ret.appended = 0
    /\ \A rg \in Ranges :
          /\ ScanSurfaces(IterSignals(signal_files, rg[1], rg[2], <<>>, <<>>),
                          IterSignals(Unblanked(signal_files), rg[1], rg[2], <<>>, <<>>),
                          Reached(signal_files, rg[1], rg[2]))
          /\ ScanSurfaces(IterEmissions(emission_files, rg[1], rg[2], <<>>, <<>>),
                          IterEmissions(Unblanked(emission_files), rg[1], rg[2], <<>>, <<>>),
                          Reached(emission_files, rg[1], rg[2]))
    /\ \A signal \in DamagedSignals, p \in {"return_existing", "raise"} :
          LET fresh == [Store EXCEPT !.signal_index = NoIndex]
          IN BuildSurfaces(WriteSignalCall(fresh, signal, p),
                           WriteSignalCall([fresh EXCEPT !.signal_files = Unblanked(@)],
                                           signal, p),
                           signal_files, "signal_files", "signal_index")
    /\ \A emission \in DamagedEmissions, p \in {"return_existing", "raise"} :
          LET fresh == [Store EXCEPT !.emission_index = NoIndex]
          IN BuildSurfaces(WriteEmissionCall(fresh, emission, p),
                           WriteEmissionCall([fresh EXCEPT !.emission_files = Unblanked(@)],
                                             emission, p),
                           emission_files, "emission_files", "emission_index")

\* A reopened instance's write_signal has just raised JSONDecodeError on a
\* directory that holds a record, an empty line and a line that is not JSON,
\* and a scan yields a record before it ends in the error.
C32_Witness ==
    /\ ret.op = "write_signal" /\ ret.kind = "JSONDecodeError"
    /\ HasNotJson(AllLines(signal_files))
    /\ HasBlank(AllLines(signal_files))
    /\ \E rg \in Ranges :
          LET scan == IterSignals(signal_files, rg[1], rg[2], <<>>, <<>>)
          IN scan.kind = "JSONDecodeError" /\ scan.out # <<>>

\* ------------------------------------------------------------- properties: a repeated write
\* The number of lines that read as a record of the id.
RecordsOf(files, id) ==
    LET lines == AllLines(files)
    IN Cardinality({k \in 1..Len(lines) :
            /\ ~IsBlank(lines[k])
            /\ JsonLoads(lines[k]) # JSONDecodeError
            /\ JsonLoads(lines[k]).signal_id = id})

\* Every scan, and every write of the open instance or of a fresh one, ends
\* without an error.
ScansAndWritesSucceed(S) ==
    /\ \A rg \in Ranges : IterSignals(S.signal_files, rg[1], rg[2], <<>>, <<>>).kind = "ok"
    /\ \A signal \in InterruptedSignals :
          /\ WriteSignalCall(S, signal, "return_existing").kind = "ok"
          /\ WriteSignalCall([S EXCEPT !.signal_index = NoIndex], signal,
                             "return_existing").kind = "ok"

\* C31: after a write_signal that ended at any step of its append was repeated,
\* by the same instance or a fresh one, the store holds exactly one record of
\* that id, and the scans and writes that follow succeed.
C31_RetriedWriteIsSafe ==
    (interrupted # <<>> /\ interrupted[1].retried # <<>>) =>
        /\ interrupted[1].retried = <<"ok">>
        /\ RecordsOf(signal_files, interrupted[1].signal.signal_id) = 1
        /\ ret.op = "write_signal" => ret.kind = "ok"
        /\ ScansAndWritesSucceed(Store)

\* ------------------------------------------------------------- properties: a scan in progress
\* The records of a directory whose instant lies in [start_utc, end_utc], in
\* replay order: partitions by day, lines as appended.
OnDiskInRange(files, start_utc, end_utc) ==
    LET lines == AllLines(files)
        records == [k \in 1..Len(lines) |-> FromDict(lines[k])]
    IN SelectSeq(records, LAMBDA r :
            /\ EnsureUtc(r.timestamp).wall >= start_utc.wall
            /\ EnsureUtc(r.timestamp).wall <= end_utc.wall)

IsIn(record, records) == \E k \in 1..Len(records) : records[k] = record

\* Of what the generator has yielded, the records that were on disk at the
\* call are the first of them in replay order, and all of them once it has
\* ended; it ends by StopIteration, or by ValueError when the end of the range
\* lies before its start; no id was yielded twice.
YieldsWhatWasOnDisk(c) ==
    LET expected == OnDiskInRange(c.at_call, c.gen.start_utc, c.gen.end_utc)
        yielded == SelectSeq(c.gen.out, LAMBDA r : IsIn(r, expected))
    IN /\ IsPrefix(yielded, expected)
       /\ c.gen.kind # "running" =>
            /\ yielded = expected
            /\ c.gen.kind = IF c.gen.end_utc.wall < c.gen.start_utc.wall
                            THEN "ValueError" ELSE "ok"
       /\ \A j, k \in 1..Len(c.gen.out) :
              c.gen.out[j].signal_id = c.gen.out[k].signal_id => j = k

ScanEnded == cursor # <<>> /\ cursor[1].gen.kind # "running"

\* C36: with writes interleaved between the steps of a partly consumed
\* iter_signals generator, the generator yields every in-range record that was
\* on disk when the scan started, in replay order, yields no id more than
\* once, and ends once the appends have stopped.
C36_ScanToleratesAppends ==
    /\ [](cursor # <<>> => YieldsWhatWasOnDisk(cursor[1]))
    /\ (cursor # <<>>) ~> ScanEnded

\* A generator that ended had yielded a record when a write appended another
\* one, and it yielded that one too, after the records on disk at the call.
C36_Witness ==
    /\ ScanEnded
    /\ cursor[1].interleaved > 0
    /\ OnDiskInRange(cursor[1].at_call, cursor[1].gen.start_utc, cursor[1].gen.end_utc) # <<>>
    /\ \E k \in 1..Len(cursor[1].gen.out) :
          ~IsIn(cursor[1].gen.out[k], OnDiskInRange(cursor[1].at_call,
                    cursor[1].gen.start_utc, cursor[1].gen.end_utc))
    /\ \E k \in 1..Len(AllLines(signal_files)) :
          /\ ~IsIn(FromDict(AllLines(signal_files)[k]), cursor[1].gen.out)
          /\ IsIn(FromDict(AllLines(signal_files)[k]),
                  OnDiskInRange(signal_files, cursor[1].gen.start_utc, cursor[1].gen.end_utc))

====
